---- MODULE Spec2Model ----
(***************************************************************************)
(* Progressive fractal renderer of Aureliuxs/caesar: the compositor        *)
(* (src/src/lib/fractal/renderer.ts, class FractalRenderer), the tile      *)
(* scheduler (src/src/lib/fractal/worker.ts) and the two message channels  *)
(* between them (worker.postMessage / self.postMessage).                   *)
(*                                                                         *)
(* Numbers.  The viewport's zoom is a power of two, kept as its exponent   *)
(* (zoom = 2^zoom); a centre coordinate is a dyadic rational kept as       *)
(* [num, exp] = num / 2^exp with num odd (or 0/2^0).  Canvas heights are   *)
(* powers of two, so that every quantity pan() and zoom() compute is a     *)
(* dyadic rational and is represented exactly.                             *)
(***************************************************************************)
EXTENDS Integers, Sequences, FiniteSets, TLC

VARIABLES
    canvas,               \* visible surface: [width, height, image]
    currentRequestId,     \* FractalRenderer.currentRequestId
    overscanCanvas,       \* overscan buffer: [width, height, seed, blits]
    overscanViewport,     \* viewport the overscan buffer was rendered for, or NoViewport
    backgroundCanvas,     \* persistent background: [width, height, seed, blits]
    backgroundViewport,   \* viewport of the persistent background, or NoViewport
    viewport,             \* [centerX, centerY, zoom]
    params,               \* FractalParams
    isInteracting,
    lowQuality,           \* [maxIterations, tileSize, tilesPerFrame]
    highQuality,
    iterationData,        \* cached iteration buffer, or NoData
    iterationDataSize,    \* [width, height] = iterationDataWidth, iterationDataHeight
    resolutionMultiplier, \* [num, den]
    sentLog,              \* LogEntry of every message the compositor has posted
    toWorker,             \* messages posted by the compositor, not yet handled by the worker
    toMain,               \* TileResponses posted by the worker, not yet handled by the compositor
    workerRequestId,      \* worker.ts: let currentRequestId
    closures,             \* requestId -> state of that handleRenderRequest activation
    harness               \* driver of the worker or of the engine on its own, or NoHarness

vars == << canvas, currentRequestId, overscanCanvas, overscanViewport,
           backgroundCanvas, backgroundViewport, viewport, params, isInteracting,
           lowQuality, highQuality, iterationData, iterationDataSize,
           resolutionMultiplier, sentLog, toWorker, toMain, workerRequestId,
           closures, harness >>

compositorVars == << canvas, currentRequestId, overscanCanvas, overscanViewport,
                     backgroundCanvas, backgroundViewport, viewport, params,
                     isInteracting, lowQuality, highQuality, iterationData,
                     iterationDataSize, resolutionMultiplier, sentLog >>

workerVars == << workerRequestId, closures >>

----------------------------------------------------------------------------
(* Bounds of the model *)

\* render requests one FractalRenderer issues in a run
MaxRequestId == 2
\* messages the worker harness posts in a run
MaxHarnessMessages == 2
\* canvas width and height of a harness request range over 1..MaxHarnessCanvas
MaxHarnessCanvas == 3
\* tileSize of a harness request ranges over 1..MaxHarnessTileSize
MaxHarnessTileSize == 2
\* tilesPerFrame of a harness request ranges over 1..MaxHarnessTilesPerFrame
MaxHarnessTilesPerFrame == 2

----------------------------------------------------------------------------
(* Arithmetic helpers *)

Min(a, b) == IF a < b THEN a ELSE b

Max(a, b) == IF a > b THEN a ELSE b

Abs(a) == IF a < 0 THEN -a ELSE a

\* Math.ceil(a / b) for integers a >= 0, b >= 1
CeilDiv(a, b) == (a + b - 1) \div b

\* Math.floor(a / b) for integers a, b >= 1 (\div rounds towards minus infinity)
FloorDiv(a, b) == a \div b

RECURSIVE Pow2(_)
Pow2(n) == IF n <= 0 THEN 1 ELSE 2 * Pow2(n - 1)

----------------------------------------------------------------------------
(* worker.ts: the tile scheduler *)

NoRequest == -1

\* worker.ts 247-252: all tile coordinates, row-major
RECURSIVE RowMajor(_, _, _)
RowMajor(tilesX, tilesY, k) ==
    IF k >= tilesX * tilesY THEN << >>
    ELSE << [x |-> k % tilesX, y |-> k \div tilesX] >> \o RowMajor(tilesX, tilesY, k + 1)

\* worker.ts 256-257: Math.pow(dx, 2) + Math.pow(dy, 2); Math.sqrt is strictly
\* increasing on these integers, so distA - distB has the sign of the difference
\* of the squared distances
Dist2(t, centerTileX, centerTileY) ==
    (t.x - centerTileX) * (t.x - centerTileX) + (t.y - centerTileY) * (t.y - centerTileY)

\* mutant: the comparator with its operands exchanged (farthest tile first)
CompareTilesDescending(a, b, centerTileX, centerTileY) ==
    Dist2(b, centerTileX, centerTileY) - Dist2(a, centerTileX, centerTileY)

\* the comparator of tiles.sort: negative, zero or positive
CompareTiles(a, b, centerTileX, centerTileY) ==
    Dist2(a, centerTileX, centerTileY) - Dist2(b, centerTileX, centerTileY)

\* insert t into the sorted sequence s behind every element that does not
\* compare greater (Array.prototype.sort is stable)
RECURSIVE InsertTile(_, _, _, _)
InsertTile(s, t, cx, cy) ==
    IF s = << >> THEN << t >>
    ELSE IF CompareTiles(Head(s), t, cx, cy) <= 0
         THEN << Head(s) >> \o InsertTile(Tail(s), t, cx, cy)
         ELSE << t >> \o s

RECURSIVE SortTiles(_, _, _)
SortTiles(s, cx, cy) ==
    IF s = << >> THEN << >>
    ELSE InsertTile(SortTiles(SubSeq(s, 1, Len(s) - 1), cx, cy), s[Len(s)], cx, cy)

\* worker.ts 230-262: the state handleRenderRequest sets up before its first batch
NewClosure(request) ==
    LET tileSize == request.quality.tileSize
        tilesX == CeilDiv(request.canvasWidth, tileSize)
        tilesY == CeilDiv(request.canvasHeight, tileSize)
        centerTileX == FloorDiv(tilesX, 2)
        centerTileY == FloorDiv(tilesY, 2)
    IN  [ requestId |-> request.requestId,
          canvasWidth |-> request.canvasWidth,
          canvasHeight |-> request.canvasHeight,
          tileSize |-> tileSize,
          tilesPerFrame |-> request.quality.tilesPerFrame,
          viewport |-> request.viewport,
          params |-> request.params,
          tilesX |-> tilesX,
          tilesY |-> tilesY,
          totalTiles |-> tilesX * tilesY,
          tiles |-> SortTiles(RowMajor(tilesX, tilesY, 0), centerTileX, centerTileY),
          tilesComputed |-> 0,
          tileIndex |-> 0,
          scheduled |-> FALSE ]

\* mutant: edge tiles keep the full tile size
TileRectUnclipped(c, t) ==
    [ x |-> t.x * c.tileSize, y |-> t.y * c.tileSize,
      width |-> c.tileSize, height |-> c.tileSize ]

\* worker.ts 276-280: the pixel rectangle of tile (tx, ty), clipped at the canvas edge
TileRect(c, t) ==
    LET tileX == t.x * c.tileSize
        tileY == t.y * c.tileSize
    IN  [ x |-> tileX,
          y |-> tileY,
          width |-> Min(c.tileSize, c.canvasWidth - tileX),
          height |-> Min(c.tileSize, c.canvasHeight - tileY) ]

\* mutant: Julia mode whenever c is non-trivial, whatever z0 is
IsJuliaSetIgnoringZ0(pr) == Abs(pr.realC) > 1 \/ Abs(pr.imagC) > 1

\* worker.ts 171-172: isJuliaSet, on parameters in thousandths (0.001 = 1)
IsJuliaSet(pr) ==
    /\ Abs(pr.realC - 0) > 1 \/ Abs(pr.imagC) > 1
    /\ Abs(pr.realZ0) < 1 /\ Abs(pr.imagZ0) < 1

\* worker.ts 151-225, 282-292: the tile computeTile returns for tile t of the
\* request, with the mode and the viewport it computed every pixel of its
\* imageData for
ComputeTile(c, t) ==
    LET rect == TileRect(c, t)
    IN  [ x |-> rect.x, y |-> rect.y, width |-> rect.width, height |-> rect.height,
          imageData |-> [ useJulia |-> IsJuliaSet(c.params), viewport |-> c.viewport ] ]

\* mutant: isComplete set on the first tile of the request instead of the last
ResponseCompleteOnFirstTile(c, i, tilesComputed) ==
    [ type |-> "tile",
      tile |-> ComputeTile(c, c.tiles[i + 1]),
      requestId |-> c.requestId,
      isComplete |-> (tilesComputed = 1) ]

\* mutant: isComplete compared before tilesComputed is incremented
ResponseCountedLate(c, i, tilesComputed) ==
    [ type |-> "tile",
      tile |-> ComputeTile(c, c.tiles[i + 1]),
      requestId |-> c.requestId,
      isComplete |-> (tilesComputed - 1 = c.totalTiles) ]

\* worker.ts 294-301: the response for tiles[i] (i counted from 0), the
\* (tilesComputed)-th tile of the request
Response(c, i, tilesComputed) ==
    [ type |-> "tile",
      tile |-> ComputeTile(c, c.tiles[i + 1]),
      requestId |-> c.requestId,
      isComplete |-> (tilesComputed = c.totalTiles) ]

\* mutant: processBatch without its check of currentRequestId
BatchRunsAlways(c, current) == TRUE

\* worker.ts 265-268: the guard of processBatch
BatchRuns(c, current) == current = c.requestId

\* mutant: one batch runs to the end of the tile list
BatchEndAll(c) == Len(c.tiles)

\* mutant: a batch of no tiles
BatchEndStalls(c) == c.tileIndex

\* worker.ts 270-271
BatchEnd(c) == Min(c.tileIndex + c.tilesPerFrame, Len(c.tiles))

\* worker.ts 264-312: one run of processBatch for closure c while the worker's
\* currentRequestId is current: the responses posted and the closure afterwards.
\* No message is handled while the loop runs, so the check at line 274 has the
\* outcome of the guard at line 265.
ProcessBatch(c, current) ==
    IF ~BatchRuns(c, current)
    THEN [ posted |-> << >>, closure |-> [c EXCEPT !.scheduled = FALSE] ]
    ELSE LET batchEnd == BatchEnd(c)
             n == Max(batchEnd - c.tileIndex, 0)
         IN  [ posted |-> [ k \in 1..n |->
                              Response(c, c.tileIndex + k - 1, c.tilesComputed + k) ],
               closure |-> [c EXCEPT !.tilesComputed = c.tilesComputed + n,
                                     !.tileIndex = batchEnd,
                                     !.scheduled = (batchEnd < Len(c.tiles)) ] ]

\* a closure lives as long as a timer refers to it (worker.ts 308-311)
Live(cs) == [ r \in { q \in DOMAIN cs : cs[q].scheduled } |-> cs[r] ]

\* mutant: every message that is not a render request handled as a cancel
IsCancelUnlessRender(request) == request.type # "render"

\* worker.ts 321: request.type === 'cancel'
IsCancel(request) == request.type = "cancel"

\* worker.ts 318-326: self.onmessage, with handleRenderRequest and its first,
\* synchronous call of processBatch
WorkerOnMessage ==
    /\ toWorker # << >>
    /\ LET request == Head(toWorker)
       IN  /\ toWorker' = Tail(toWorker)
           /\ IF IsCancel(request)
              THEN /\ workerRequestId' = NoRequest
                   /\ UNCHANGED << closures, toMain >>
              ELSE IF request.type = "render"
              THEN LET b == ProcessBatch(NewClosure(request), request.requestId)
                   IN  /\ workerRequestId' = request.requestId
                       /\ closures' = Live([ r \in DOMAIN closures \cup {request.requestId} |->
                                               IF r = request.requestId THEN b.closure
                                               ELSE closures[r] ])
                       /\ toMain' = toMain \o b.posted
              ELSE UNCHANGED << workerRequestId, closures, toMain >>
    /\ UNCHANGED << compositorVars, harness >>

\* worker.ts 308-311: the batch scheduled by setTimeout(processBatch, 0) runs
WorkerTimer(r) ==
    /\ r \in DOMAIN closures
    /\ closures[r].scheduled
    /\ LET b == ProcessBatch(closures[r], workerRequestId)
       IN  /\ closures' = Live([closures EXCEPT ![r] = b.closure])
           /\ toMain' = toMain \o b.posted
    /\ UNCHANGED << compositorVars, harness, toWorker, workerRequestId >>

----------------------------------------------------------------------------
(* Dyadic rationals [num, exp] = num / 2^exp, num odd or 0 / 2^0 *)

RECURSIVE Dy(_, _)
Dy(n, e) ==
    IF n = 0 THEN [num |-> 0, exp |-> 0]
    ELSE IF n % 2 = 0 THEN Dy(n \div 2, e - 1)
    ELSE [num |-> n, exp |-> e]

\* the numerator of a over the denominator 2^e, for e >= a.exp
DyNumAt(a, e) == IF a.num = 0 THEN 0 ELSE a.num * Pow2(e - a.exp)

DyAdd(a, b) ==
    LET e == Max(a.exp, b.exp) IN Dy(DyNumAt(a, e) + DyNumAt(b, e), e)

DySub(a, b) ==
    LET e == Max(a.exp, b.exp) IN Dy(DyNumAt(a, e) - DyNumAt(b, e), e)

DyAbs(a) == [num |-> Abs(a.num), exp |-> a.exp]

DyTimes(k, a) == Dy(k * a.num, a.exp)

DyGreater(a, b) ==
    LET e == Max(a.exp, b.exp) IN DyNumAt(a, e) > DyNumAt(b, e)

\* log2 of a power of two
RECURSIVE Log2(_)
Log2(n) == IF n <= 1 THEN 0 ELSE 1 + Log2(n \div 2)

----------------------------------------------------------------------------
(* renderer.ts: the compositor *)

NoViewport == [none |-> TRUE]

NoData == [none |-> TRUE]

NoHarness == [none |-> TRUE]

\* document.createElement('canvas') gives a 300 x 150 canvas (renderer.ts 69, 73)
DefaultCanvasWidth == 300

DefaultCanvasHeight == 150

\* renderer.ts 32: minZoom = 0.5 = 2^-1
MinZoomExp == -1

\* renderer.ts 33: maxZoom = 1e12, and 2^39 <= 1e12 < 2^40
MaxZoomExp == 39

\* page.tsx 113-114: the size of the visible canvas at construction (powers of
\* two, see the head of the module)
InitialCanvasSize == [width |-> 32, height |-> 32]

\* arguments of resize(width, height)
CanvasSizes == { [width |-> 64, height |-> 32] }

\* zoom exponents of the initial viewport
InitialZooms == { 0 }

\* page.tsx 118-122: the initial viewport has centre (0, 0)
InitialViewport(z) == [centerX |-> Dy(0, 0), centerY |-> Dy(0, 0), zoom |-> z]

\* page.tsx 20-28, 240-248: parameter values in thousandths
InitialParams ==
    [ realZ0 |-> 0, imagZ0 |-> 0, realC |-> 0, imagC |-> 0,
      exponent |-> 2000, imagExponent |-> 0, colorHue |-> 200000 ]

\* arguments of pan(dx, dy), in pixels
PanDeltas == { [dx |-> 4, dy |-> 0], [dx |-> -8, dy |-> 8] }

\* arguments of zoom(factor, mouseX, mouseY): factor = 2^k; mouse = NoMouse when omitted
NoMouse == [none |-> TRUE]

ZoomCalls ==
    { [k |-> -1, mouse |-> NoMouse], [k |-> 1, mouse |-> [x |-> 0, y |-> 0]],
      [k |-> 41, mouse |-> NoMouse] }

\* arguments of updateParams(params)
ParamUpdates ==
    { [colorHue |-> 30000], [colorHue |-> 30000, realC |-> -500],
      [colorHue |-> 30000, realC |-> -500, realZ0 |-> 1] }

\* arguments of setResolution(multiplier): 1/2, 1
Multipliers == { [num |-> 1, den |-> 2], [num |-> 1, den |-> 1] }

Black == [kind |-> "black"]

\* renderer.ts 366-369
CancelRequest(id) == [type |-> "cancel", requestId |-> id]

\* renderer.ts 457-466
RenderRequest(id, width, height, vp, pr, quality) ==
    [ type |-> "render", canvasWidth |-> width, canvasHeight |-> height,
      viewport |-> vp, params |-> pr, quality |-> quality, requestId |-> id,
      storeIterations |-> TRUE ]

\* mutant: the counter advanced by two
NextRequestIdSkips(id) == id + 2

\* renderer.ts 364
NextRequestId(id) == id + 1

\* mutant: the render request posted before the cancel
RenderMessagesSwapped(oldId, newId, width, height, vp, pr, quality) ==
    << RenderRequest(newId, width, height, vp, pr, quality), CancelRequest(oldId) >>

\* renderer.ts 366-370, 468: what render() posts, in posting order; oldId is
\* currentRequestId - 1 after the increment
RenderMessages(oldId, newId, width, height, vp, pr, quality) ==
    << CancelRequest(oldId), RenderRequest(newId, width, height, vp, pr, quality) >>

\* renderer.ts 373-374: Math.floor(size * overscanFactor), overscanFactor = 1.5
OverscanSize(size) == FloorDiv(size * 3, 2)

\* mutant: the previous overscan buffer preferred to the persistent background
SeedPrefersOverscan ==
    IF overscanCanvas.width > 0 /\ overscanCanvas.height > 0 /\ overscanViewport # NoViewport
    THEN "overscan"
    ELSE IF backgroundViewport # NoViewport /\ backgroundCanvas.width > 0
    THEN "background"
    ELSE "black"

\* mutant: the resized overscan buffer always cleared to black
SeedAlwaysBlack == "black"

\* renderer.ts 378, 394, 416, 439: which buffer seeds the resized overscan buffer
Seed ==
    LET hadPreviousRender == overscanCanvas.width > 0 /\ overscanCanvas.height > 0
    IN  IF backgroundViewport # NoViewport /\ backgroundCanvas.width > 0
        THEN "background"
        ELSE IF hadPreviousRender /\ overscanViewport # NoViewport
        THEN "overscan"
        ELSE "black"

\* mutant: the adaptive maxIterations without its cap
AdaptiveMaxIterationsUncapped(zoomExp) == 128 + zoomExp * 32

\* renderer.ts 452-455: Math.min(512, Math.floor(128 + Math.log2(zoom) * 32))
AdaptiveMaxIterations(zoomExp) == Min(512, 128 + zoomExp * 32)

\* mutant: the final profile whatever the interaction flag
SelectQualityAlwaysHigh(interacting, low, high) == high

\* renderer.ts 449: this.isInteracting ? this.lowQuality : this.highQuality
SelectQuality(interacting, low, high) == IF interacting THEN low ELSE high

\* renderer.ts 452-455: the final profile after render()'s adaptation of its
\* maxIterations, which is skipped in interactive mode
AdaptedHigh(interacting, high, zoomExp) ==
    IF interacting THEN high
    ELSE [high EXCEPT !.maxIterations = AdaptiveMaxIterations(zoomExp)]

\* renderer.ts 449-455, 463: the quality render() puts into its request
SentQuality(interacting, low, high, zoomExp) ==
    SelectQuality(interacting, low, AdaptedHigh(interacting, high, zoomExp))

\* the entry of sentLog for a posted message; a render request is logged with the
\* value isInteracting had when render() posted it
LogEntry(message, interacting) ==
    IF message.type = "render"
    THEN [ type |-> "render", requestId |-> message.requestId, interacting |-> interacting ]
    ELSE [ type |-> message.type, requestId |-> message.requestId ]

\* renderer.ts 362-473: render(), called with the canvas, viewport, params,
\* interaction flag and quality profiles its caller has just set
Render(cv, vp, pr, interacting, low, high) ==
    LET newId == NextRequestId(currentRequestId)
        overscanWidth == OverscanSize(cv.width)
        overscanHeight == OverscanSize(cv.height)
        newHigh == AdaptedHigh(interacting, high, vp.zoom)
        quality == SentQuality(interacting, low, high, vp.zoom)
        messages == RenderMessages(newId - 1, newId, overscanWidth, overscanHeight,
                                   vp, pr, quality)
    IN  /\ currentRequestId' = newId
        /\ toWorker' = toWorker \o messages
        /\ sentLog' = sentLog \o [ i \in DOMAIN messages |->
                                     LogEntry(messages[i], interacting) ]
        /\ overscanCanvas' = [ width |-> overscanWidth, height |-> overscanHeight,
                               seed |-> Seed, blits |-> {} ]
        /\ overscanViewport' = vp
        /\ lowQuality' = low
        /\ highQuality' = newHigh
        /\ iterationDataSize' = [width |-> overscanWidth, height |-> overscanHeight]

\* renderer.ts 125-138: updateMainCanvas(), given the overscan buffer and its
\* viewport at the time of the call: the new image of the visible canvas
UpdateMainCanvas(cv, overscan, overscanVp) ==
    IF overscanVp = NoViewport THEN cv
    ELSE [cv EXCEPT !.image = [ kind |-> "crop",
                                seed |-> overscan.seed,
                                blits |-> overscan.blits,
                                sourceWidth |-> overscan.width,
                                sourceHeight |-> overscan.height,
                                viewport |-> overscanVp ] ]

\* renderer.ts 128-129: offsetX and offsetY of the crop updateMainCanvas() copies
\* from a source buffer of the given size, both doubled (the offsets are halves)
CropOffset2(cv, sourceWidth, sourceHeight) ==
    [ x |-> sourceWidth - cv.width, y |-> sourceHeight - cv.height ]

\* renderer.ts 131-137: drawImage copies the crop pixel for pixel, so the pixel
\* (px2 / 2, py2 / 2) of the visible canvas shows the source pixel at the crop's
\* offset plus (px2 / 2, py2 / 2); coordinates doubled
SourcePixel2(cv, sourceWidth, sourceHeight, px2, py2) ==
    LET offset == CropOffset2(cv, sourceWidth, sourceHeight)
    IN  [ x |-> offset.x + px2, y |-> offset.y + py2 ]

\* worker.ts 165-166, 186-187: the plane point computeTile() computes for the
\* pixel (sx2 / 2, sy2 / 2) of a canvasWidth x canvasHeight buffer, as its offset
\* from the centre of the request's viewport; each coordinate a fraction
\* [num, den]:  (sx / w - 0.5) * (4 / zoom) * (w / h) = (sx2 - w) * 2 / (zoom * h)
\* and  -(sy / h - 0.5) * (4 / zoom) = (h - sy2) * 2 / (zoom * h)
PlaneOffset(sx2, sy2, canvasWidth, canvasHeight, zoomExp) ==
    [ x |-> [ num |-> (sx2 - canvasWidth) * 2 * Pow2(-zoomExp),
              den |-> canvasHeight * Pow2(zoomExp) ],
      y |-> [ num |-> (canvasHeight - sy2) * 2 * Pow2(-zoomExp),
              den |-> canvasHeight * Pow2(zoomExp) ] ]

\* renderer.ts 125-138 with worker.ts 186-187: the plane point the visible
\* canvas cv shows at its pixel (px2 / 2, py2 / 2), as an offset from the centre
\* of the viewport the shown buffer was rendered for
DisplayedOffset(cv, px2, py2) ==
    LET s == SourcePixel2(cv, cv.image.sourceWidth, cv.image.sourceHeight, px2, py2)
    IN  PlaneOffset(s.x, s.y, cv.image.sourceWidth, cv.image.sourceHeight,
                    cv.image.viewport.zoom)

\* mutant: no filter on requestId
AcceptsEveryTile(response) == TRUE

\* mutant: the filter lets tiles of older requests through
AcceptsOlderTile(response) == response.requestId <= currentRequestId

\* renderer.ts 87-89: the compositor's filter on an arriving TileResponse
TileIsCurrent(response) == response.requestId = currentRequestId

\* renderer.ts 92-96: putImageData of the tile into the overscan buffer
Blit(overscan, response) ==
    LET t == response.tile
        same(b) == b.x = t.x /\ b.y = t.y /\ b.width = t.width /\ b.height = t.height
    IN  [overscan EXCEPT !.blits =
            { b \in overscan.blits : ~same(b) } \cup
            { [ x |-> t.x, y |-> t.y, width |-> t.width, height |-> t.height,
                requestId |-> response.requestId ] } ]

\* mutant: the snapshot is taken in interactive mode too
SavesWhileInteracting(response) == response.isComplete

\* renderer.ts 102: the condition for snapshotting the overscan buffer
ShouldSave(response) == response.isComplete /\ ~isInteracting

\* mutant: the snapshot tagged with the compositor's viewport at the time it is
\* taken
SaveToBackgroundTagsCurrent(overscan) ==
    IF overscan.width = 0 \/ overscan.height = 0
    THEN UNCHANGED << backgroundCanvas, backgroundViewport >>
    ELSE /\ backgroundCanvas' = overscan
         /\ backgroundViewport' = viewport

\* renderer.ts 111-120: saveToBackground() of the given overscan buffer
SaveToBackground(overscan) ==
    IF overscan.width = 0 \/ overscan.height = 0
    THEN UNCHANGED << backgroundCanvas, backgroundViewport >>
    ELSE /\ backgroundCanvas' = overscan
         /\ backgroundViewport' = overscanViewport

\* renderer.ts 84-105: worker.onmessage, the tile-arrival handler
OnTile ==
    /\ toMain # << >>
    /\ harness = NoHarness
    /\ LET response == Head(toMain)
       IN  /\ toMain' = Tail(toMain)
           /\ IF ~TileIsCurrent(response)
              THEN UNCHANGED << canvas, overscanCanvas, backgroundCanvas, backgroundViewport >>
              ELSE LET overscan == Blit(overscanCanvas, response)
                   IN  /\ overscanCanvas' = overscan
                       /\ canvas' = UpdateMainCanvas(canvas, overscan, overscanViewport)
                       /\ IF ShouldSave(response)
                          THEN SaveToBackground(overscan)
                          ELSE UNCHANGED << backgroundCanvas, backgroundViewport >>
    /\ UNCHANGED << currentRequestId, overscanViewport, viewport, params, isInteracting,
                    lowQuality, highQuality, iterationData, iterationDataSize,
                    resolutionMultiplier, toWorker, sentLog, workerVars, harness >>

\* every call of the compositor's public operations is counted against MaxRequestId
CanCall == harness = NoHarness /\ currentRequestId < MaxRequestId

\* page.tsx 126, 270: render() called by the page
CallRender ==
    /\ CanCall
    /\ Render(canvas, viewport, params, isInteracting, lowQuality, highQuality)
    /\ UNCHANGED << canvas, backgroundCanvas, backgroundViewport, viewport, params,
                    isInteracting, iterationData, resolutionMultiplier, toMain,
                    workerVars, harness >>

\* renderer.ts 143-152: resize(width, height)
Resize(size) ==
    /\ CanCall
    /\ LET cv == [width |-> size.width, height |-> size.height, image |-> Black]
       IN  /\ canvas' = cv
           /\ Render(cv, viewport, params, isInteracting, lowQuality, highQuality)
    /\ UNCHANGED << backgroundCanvas, backgroundViewport, viewport, params,
                    isInteracting, iterationData, resolutionMultiplier, toMain,
                    workerVars, harness >>

\* mutant: startInteraction() renders, as endInteraction() does
StartInteractionRenders ==
    /\ CanCall
    /\ isInteracting' = TRUE
    /\ Render(canvas, viewport, params, TRUE, lowQuality, highQuality)
    /\ UNCHANGED << canvas, backgroundCanvas, backgroundViewport, viewport, params,
                    iterationData, resolutionMultiplier, toMain, workerVars, harness >>

\* renderer.ts 157-163: startInteraction()
StartInteraction ==
    /\ CanCall
    /\ isInteracting' = TRUE
    /\ UNCHANGED << canvas, currentRequestId, overscanCanvas, overscanViewport,
                    backgroundCanvas, backgroundViewport, viewport, params,
                    lowQuality, highQuality, iterationData, iterationDataSize,
                    resolutionMultiplier, toWorker, sentLog, toMain, workerVars, harness >>

\* renderer.ts 168-176: endInteraction()
EndInteraction ==
    /\ CanCall
    /\ isInteracting' = FALSE
    /\ Render(canvas, viewport, params, FALSE, lowQuality, highQuality)
    /\ UNCHANGED << canvas, backgroundCanvas, backgroundViewport, viewport, params,
                    iterationData, resolutionMultiplier, toMain, workerVars, harness >>

\* renderer.ts 182-185: the viewport after pan(dx, dy).  (dx / width) * scale *
\* aspectRatio = dx * 4 / (zoom * height), and (dy / height) * scale likewise
Panned(vp, cv, dx, dy) ==
    LET e == vp.zoom + Log2(cv.height) - 2
    IN  [vp EXCEPT !.centerX = DySub(vp.centerX, Dy(dx, e)),
                   !.centerY = DyAdd(vp.centerY, Dy(dy, e))]

\* renderer.ts 212: Math.abs(zoom - overscanZoom) > zoom * 0.01, both sides
\* divided by the smaller of the two powers of two
ZoomChanged(vp, overscanVp) ==
    LET m == Min(vp.zoom, overscanVp.zoom)
    IN  100 * Abs(Pow2(vp.zoom - m) - Pow2(overscanVp.zoom - m)) > Pow2(vp.zoom - m)

\* mutant: a threshold of 10% of the visible scale
PannedTooFarTenth(vp, overscanVp) ==
    LET dx == DyAbs(DySub(vp.centerX, overscanVp.centerX))
        dy == DyAbs(DySub(vp.centerY, overscanVp.centerY))
        scale == Dy(1, vp.zoom - 2)
    IN  DyGreater(DyTimes(10, dx), scale) \/ DyGreater(DyTimes(10, dy), scale)

\* renderer.ts 217-221: dx > threshold || dy > threshold with threshold =
\* scale * 0.2 = 2^(2 - zoom) / 5
PannedTooFar(vp, overscanVp) ==
    LET dx == DyAbs(DySub(vp.centerX, overscanVp.centerX))
        dy == DyAbs(DySub(vp.centerY, overscanVp.centerY))
        scale == Dy(1, vp.zoom - 2)
    IN  DyGreater(DyTimes(5, dx), scale) \/ DyGreater(DyTimes(5, dy), scale)

\* renderer.ts 205-222: needsRerender() for the viewport vp
NeedsRerender(vp, overscanVp) ==
    IF overscanVp = NoViewport THEN TRUE
    ELSE IF ZoomChanged(vp, overscanVp) THEN TRUE
    ELSE PannedTooFar(vp, overscanVp)

\* mutant: pan() consults needsRerender() in interactive mode too
PanRendersOnlyWhenNeeded(vp, overscanVp) == NeedsRerender(vp, overscanVp)

\* renderer.ts 188-199: does pan() call render()
PanRenders(vp, overscanVp) ==
    IF isInteracting THEN TRUE ELSE NeedsRerender(vp, overscanVp)

\* renderer.ts 181-200: pan(dx, dy)
Pan(d) ==
    /\ CanCall
    /\ LET vp == Panned(viewport, canvas, d.dx, d.dy)
       IN  /\ viewport' = vp
           /\ IF PanRenders(vp, overscanViewport)
              THEN /\ Render(canvas, vp, params, isInteracting, lowQuality, highQuality)
                   /\ UNCHANGED canvas
              ELSE /\ canvas' = UpdateMainCanvas(canvas, overscanCanvas, overscanViewport)
                   /\ UNCHANGED << currentRequestId, overscanCanvas, overscanViewport,
                                   lowQuality, highQuality, iterationDataSize, toWorker, sentLog >>
    /\ UNCHANGED << backgroundCanvas, backgroundViewport, params, isInteracting,
                    iterationData, resolutionMultiplier, toMain, workerVars, harness >>

\* mutant: zoom() without its limits
ZoomNeverOutOfLimits(newZoom) == FALSE

\* renderer.ts 231-234: zoom() returns early when zoom * factor leaves
\* [minZoom, maxZoom]
ZoomOutOfLimits(newZoom) == newZoom < MinZoomExp \/ newZoom > MaxZoomExp

\* renderer.ts 237-254: the viewport after zoom(factor, mouseX, mouseY).
\* mouseXNorm * scale * aspectRatio = (2 * mouseX - width) * 2 / (zoom * height),
\* mouseYNorm * scale = (height - 2 * mouseY) * 2 / (zoom * height)
Zoomed(vp, cv, k, mouse) ==
    IF mouse = NoMouse THEN [vp EXCEPT !.zoom = vp.zoom + k]
    ELSE LET lh == Log2(cv.height)
             mx == 2 * mouse.x - cv.width
             my == cv.height - 2 * mouse.y
             worldX == DyAdd(vp.centerX, Dy(mx, vp.zoom + lh - 1))
             worldY == DyAdd(vp.centerY, Dy(my, vp.zoom + lh - 1))
             newZoom == vp.zoom + k
         IN  [ centerX |-> DySub(worldX, Dy(mx, newZoom + lh - 1)),
               centerY |-> DySub(worldY, Dy(my, newZoom + lh - 1)),
               zoom |-> newZoom ]

\* renderer.ts 227-262: zoom(factor, mouseX, mouseY) with factor = 2^k
Zoom(k, mouse) ==
    /\ CanCall
    /\ IF ZoomOutOfLimits(viewport.zoom + k)
       THEN UNCHANGED << viewport, currentRequestId, overscanCanvas, overscanViewport,
                         lowQuality, highQuality, iterationDataSize, toWorker, sentLog >>
       ELSE LET vp == Zoomed(viewport, canvas, k, mouse)
            IN  /\ viewport' = vp
                /\ Render(canvas, vp, params, isInteracting, lowQuality, highQuality)
    /\ UNCHANGED << canvas, backgroundCanvas, backgroundViewport, params, isInteracting,
                    iterationData, resolutionMultiplier, toMain, workerVars, harness >>

\* renderer.ts 268-269: { ...this.params, ...params }
MergeParams(old, update) ==
    [ k \in DOMAIN old |-> IF k \in DOMAIN update THEN update[k] ELSE old[k] ]

\* mutant: every hue-only update repainted from the cache, present or not
RecolorsWhenHueOnly(update) ==
    "colorHue" \in DOMAIN update /\ Cardinality(DOMAIN update) = 1

\* renderer.ts 272-274, 285-287: is the update served by the fast recolor
Recolors(update) ==
    /\ "colorHue" \in DOMAIN update
    /\ Cardinality(DOMAIN update) = 1
    /\ iterationData # NoData
    /\ iterationDataSize.width = overscanCanvas.width
    /\ iterationDataSize.height = overscanCanvas.height

\* renderer.ts 293-328: the overscan buffer repainted from the iteration cache
Recolored(overscan, hue) == [overscan EXCEPT !.seed = "recolor", !.blits = {}]

\* renderer.ts 267-279: updateParams(params)
UpdateParams(update) ==
    /\ CanCall
    /\ LET pr == MergeParams(params, update)
       IN  /\ params' = pr
           /\ IF Recolors(update)
              THEN LET overscan == Recolored(overscanCanvas, update.colorHue)
                   IN  /\ overscanCanvas' = overscan
                       /\ canvas' = UpdateMainCanvas(canvas, overscan, overscanViewport)
                       /\ UNCHANGED << currentRequestId, overscanViewport, lowQuality,
                                       highQuality, iterationDataSize, toWorker, sentLog >>
              ELSE /\ Render(canvas, viewport, pr, isInteracting, lowQuality, highQuality)
                   /\ UNCHANGED canvas
    /\ UNCHANGED << backgroundCanvas, backgroundViewport, viewport, isInteracting,
                    iterationData, resolutionMultiplier, toMain, workerVars, harness >>

\* renderer.ts 489-495: the quality profiles after setResolution(multiplier)
Rescaled(quality, baseIterations, baseTileSize, minTileSize, m) ==
    [quality EXCEPT !.maxIterations = FloorDiv(baseIterations * m.num, m.den),
                    !.tileSize = Max(minTileSize, FloorDiv(baseTileSize * m.den, m.num))]

\* renderer.ts 485-500: setResolution(multiplier)
SetResolution(m) ==
    /\ CanCall
    /\ resolutionMultiplier' = m
    /\ LET high == Rescaled(highQuality, 256, 32, 16, m)
           low == Rescaled(lowQuality, 64, 64, 32, m)
       IN  IF ~isInteracting
           THEN Render(canvas, viewport, params, isInteracting, low, high)
           ELSE /\ lowQuality' = low
                /\ highQuality' = high
                /\ UNCHANGED << currentRequestId, overscanCanvas, overscanViewport,
                                iterationDataSize, toWorker, sentLog >>
    /\ UNCHANGED << canvas, backgroundCanvas, backgroundViewport, viewport, params,
                    isInteracting, iterationData, toMain, workerVars, harness >>

----------------------------------------------------------------------------
(* The worker on its own, driven by a harness in place of the compositor *)

\* the render requests the harness posts: every canvas and quality within the
\* bounds; log lists [type, requestId] of the render and cancel requests it has
\* posted, lastId is the last request id it used
HarnessRequests ==
    [ canvasWidth : 1..MaxHarnessCanvas, canvasHeight : 1..MaxHarnessCanvas,
      tileSize : 1..MaxHarnessTileSize, tilesPerFrame : 1..MaxHarnessTilesPerFrame,
      log : { << >> }, lastId : {0}, others : {0} ]

\* others counts the messages of an unknown type the harness has posted
CanPost ==
    /\ harness # NoHarness
    /\ Len(harness.log) + harness.others < MaxHarnessMessages

\* types.ts 36-45: the harness posts a RenderRequest with a fresh id
HarnessRender ==
    /\ CanPost
    /\ toWorker' = Append(toWorker,
          RenderRequest(harness.lastId + 1, harness.canvasWidth,
                        harness.canvasHeight, viewport, params,
                        [ maxIterations |-> highQuality.maxIterations,
                          tileSize |-> harness.tileSize,
                          tilesPerFrame |-> harness.tilesPerFrame ]))
    /\ harness' = [harness EXCEPT
          !.log = Append(harness.log, [type |-> "render", requestId |-> harness.lastId + 1]),
          !.lastId = harness.lastId + 1]
    /\ UNCHANGED << compositorVars, toMain, workerVars >>

\* types.ts 55-58: the harness posts a CancelRequest for the last id it used
HarnessCancel ==
    /\ CanPost
    /\ harness.lastId > 0
    /\ toWorker' = Append(toWorker, CancelRequest(harness.lastId))
    /\ harness' = [harness EXCEPT
          !.log = Append(harness.log, [type |-> "cancel", requestId |-> harness.lastId])]
    /\ UNCHANGED << compositorVars, toMain, workerVars >>

\* a message whose type is neither 'render' nor 'cancel' reaches self.onmessage
\* (worker.ts 318-319)
HarnessOther ==
    /\ CanPost
    /\ toWorker' = Append(toWorker, [type |-> "other", requestId |-> harness.lastId])
    /\ harness' = [harness EXCEPT !.others = harness.others + 1]
    /\ UNCHANGED << compositorVars, toMain, workerVars >>

----------------------------------------------------------------------------
(* worker.ts: the Iteration Engine, on dyadic rationals.  The coordinates   *)
(* and parameters of the inputs are small multiples of 1/2, on which every  *)
(* double-precision operation of the code is exact.                         *)

NoResult == [none |-> TRUE]

DyMul(a, b) == Dy(a.num * b.num, a.exp + b.exp)

\* worker.ts 11-14
IsInCardioid(x, y) ==
    LET xq == DySub(x, Dy(1, 2))
        q == DyAdd(DyMul(xq, xq), DyMul(y, y))
    IN  DyGreater(DyMul(Dy(1, 2), DyMul(y, y)), DyMul(q, DyAdd(q, xq)))

\* worker.ts 16-18
IsInPeriod2Bulb(x, y) ==
    LET x1 == DyAdd(x, Dy(1, 0))
    IN  DyGreater(Dy(1, 4), DyAdd(DyMul(x1, x1), DyMul(y, y)))

\* mutant: the interior shortcut with the cardioid test alone
InteriorShortcutCardioidOnly(x0, y0, useJulia) == ~useJulia /\ IsInCardioid(x0, y0)

\* worker.ts 32-36: does computePixel return before its loop
InteriorShortcut(x0, y0, useJulia) ==
    ~useJulia /\ (IsInCardioid(x0, y0) \/ IsInPeriod2Bulb(x0, y0))

\* worker.ts 55-56: Math.ceil(nu) for nu = log2(log(m2) / 2 / log(2)), m2 > 4:
\* the least k >= 1 with m2 <= 2^(2^(k+1)), in real arithmetic, for m2 < 2^32
CeilNu(m2) ==
    IF ~DyGreater(m2, Dy(16, 0)) THEN 1
    ELSE IF ~DyGreater(m2, Dy(256, 0)) THEN 2
    ELSE IF ~DyGreater(m2, Dy(65536, 0)) THEN 3
    ELSE 4

\* worker.ts 51-112: the loop, for exponent = 2 and imagExponent = 0 (61-65).
\* An escaped point returns iteration + 1 - nu, kept as its floor; the loop's
\* end returns the inside sentinel -1.
RECURSIVE Iterate(_, _, _, _, _, _)
Iterate(zr, zi, cr, ci, iteration, maxIterations) ==
    IF iteration >= maxIterations
    THEN [ kind |-> "inside", iterations |-> iteration, shortcut |-> FALSE ]
    ELSE LET zrSq == DyMul(zr, zr)
             ziSq == DyMul(zi, zi)
             m2 == DyAdd(zrSq, ziSq)
         IN  IF DyGreater(m2, Dy(4, 0))
             THEN [ kind |-> "escaped", floor |-> iteration + 1 - CeilNu(m2),
                    iterations |-> iteration, shortcut |-> FALSE ]
             ELSE Iterate(DyAdd(DySub(zrSq, ziSq), cr),
                          DyAdd(DyMul(Dy(2, 0), DyMul(zr, zi)), ci),
                          cr, ci, iteration + 1, maxIterations)

\* mutant: computePixel with the scheduler's check of currentRequestId (worker.ts
\* 274) inside it, returning the inside sentinel when no request is active
ComputePixelChecksRequestId(x0, y0, pr, maxIterations, useJulia) ==
    IF workerRequestId = NoRequest \/ InteriorShortcut(x0, y0, useJulia)
    THEN [ kind |-> "inside", iterations |-> 0, shortcut |-> TRUE ]
    ELSE LET cr == IF useJulia THEN pr.realC ELSE x0
             ci == IF useJulia THEN pr.imagC ELSE y0
             zr == IF useJulia THEN x0 ELSE pr.realZ0
             zi == IF useJulia THEN y0 ELSE pr.imagZ0
         IN  Iterate(zr, zi, cr, ci, 0, maxIterations)

\* worker.ts 24-115: computePixel(x0, y0, params, maxIterations, useJulia)
ComputePixel(x0, y0, pr, maxIterations, useJulia) ==
    IF InteriorShortcut(x0, y0, useJulia)
    THEN [ kind |-> "inside", iterations |-> 0, shortcut |-> TRUE ]
    ELSE LET cr == IF useJulia THEN pr.realC ELSE x0
             ci == IF useJulia THEN pr.imagC ELSE y0
             zr == IF useJulia THEN x0 ELSE pr.realZ0
             zi == IF useJulia THEN y0 ELSE pr.imagZ0
         IN  Iterate(zr, zi, cr, ci, 0, maxIterations)

----------------------------------------------------------------------------
(* computePixel with a complex exponent (worker.ts 75-106).  The path is    *)
(* computed in floating point with Math.pow, Math.exp, Math.log, Math.cos   *)
(* and Math.sin; the model keeps of every quantity what the code branches   *)
(* on.  |z|^2 = zrSq + ziSq is one of five classes, and each pass of the    *)
(* loop draws from an oracle whether the magnitude, the angle and the new   *)
(* coordinates are finite and the class of the new |z|^2.                   *)

\* zrSq + ziSq: NaN; +Infinity; finite and > 4; at most 4 with r >= 1e-10;
\* r = sqrt(zrSq + ziSq) < 1e-10
RadiusClasses == { "nan", "inf", "big", "mid", "tiny" }

\* one pass of the loop: isFinite(magnitude), isFinite(angle) (worker.ts 95),
\* isFinite(zr) && isFinite(zi) (103), and the class of the new zrSq + ziSq
\* (109-110), which is the sum of the squares of two finite numbers and so never
\* NaN
PassOutcomes ==
    { [ magnitude |-> TRUE, angle |-> TRUE, coordinate |-> TRUE, m2 |-> c ] :
        c \in RadiusClasses \ {"nan"} } \cup
    { [ magnitude |-> FALSE, angle |-> TRUE, coordinate |-> TRUE, m2 |-> "mid" ],
      [ magnitude |-> TRUE, angle |-> FALSE, coordinate |-> TRUE, m2 |-> "mid" ],
      [ magnitude |-> TRUE, angle |-> TRUE, coordinate |-> FALSE, m2 |-> "mid" ] }

\* worker.ts 53: zrSq + ziSq > 4, false for NaN
Escapes(m2) == m2 \in { "inf", "big" }

\* mutant: the loop without its guard against log(0)
TinyRadiusNever(m2) == FALSE

\* worker.ts 78-83: r < 1e-10, false for NaN
TinyRadius(m2) == m2 = "tiny"

\* worker.ts 51-112 for imagExponent # 0: the loop from the given iteration on.
\* value is the returned integer, an escaped point returns iteration + 1 - nu
\* (53-57); passes counts the evaluations of the loop body.  A NaN radius makes theta, and with it the
\* angle, NaN (85, 92).
RECURSIVE ComplexIterate(_, _, _, _)
ComplexIterate(m2, oracle, iteration, maxIterations) ==
    IF iteration >= maxIterations
    THEN [ kind |-> "inside", value |-> -1, passes |-> iteration ]
    ELSE IF Escapes(m2)
    THEN [ kind |-> "escaped", iterations |-> iteration, passes |-> iteration + 1 ]
    ELSE IF TinyRadius(m2)
    THEN [ kind |-> "inside", value |-> -1, passes |-> iteration + 1 ]
    ELSE LET o == oracle[iteration + 1]
         IN  IF m2 = "nan" \/ ~o.magnitude \/ ~o.angle
             THEN [ kind |-> "count", value |-> iteration, passes |-> iteration + 1 ]
             ELSE IF ~o.coordinate
             THEN [ kind |-> "count", value |-> iteration, passes |-> iteration + 1 ]
             ELSE ComplexIterate(o.m2, oracle, iteration + 1, maxIterations)

\* worker.ts 24-115 for imagExponent # 0: shortcut is the outcome of the interior
\* tests (32-36), m2 the class of the initial zrSq + ziSq (43-47)
ComplexPixel(shortcut, m2, oracle, maxIterations) ==
    IF shortcut
    THEN [ kind |-> "inside", value |-> -1, passes |-> 0 ]
    ELSE ComplexIterate(m2, oracle, 0, maxIterations)

----------------------------------------------------------------------------
(* The colouring of computeTile (worker.ts) and of recolor (renderer.ts).   *)
(* A smooth iteration count s is coloured through t = sqrt(s /              *)
(* maxIterations); the inputs are integers s for which t is a multiple of   *)
(* 1/8, hues are whole degrees, and the channel values are computed in      *)
(* exact rational arithmetic.                                               *)

\* does sqrt(s / maxIterations) lie on the grid of eighths
HasSqrt8(s, maxIterations) ==
    \E k \in 0..64 : k * k * maxIterations = 64 * s

\* Math.sqrt(s / maxIterations), in eighths
Sqrt8(s, maxIterations) ==
    CHOOSE k \in 0..64 : k * k * maxIterations = 64 * s

\* Math.round(n / 96000 * 255): round half up
Round255(n) == (2 * 255 * n + 96000) \div (2 * 96000)

\* worker.ts 120-146: hsvToRgb(h, s, v) for h in whole degrees, s = s100 / 100,
\* v = v16 / 16.  c, x and m are kept as numerators over 96000:
\* |((h / 60) % 2) - 1| = |h % 120 - 60| / 60
HsvToRgb(h, s100, v16) ==
    LET a == Abs((h % 120) - 60)
        c == v16 * s100 * 60
        x == v16 * s100 * (60 - a)
        m == v16 * (100 - s100) * 60
        rgb == IF h < 60 THEN << c, x, 0 >>
               ELSE IF h < 120 THEN << x, c, 0 >>
               ELSE IF h < 180 THEN << 0, c, x >>
               ELSE IF h < 240 THEN << 0, x, c >>
               ELSE IF h < 300 THEN << x, 0, c >>
               ELSE << c, 0, x >>
    IN  << Round255(rgb[1] + m), Round255(rgb[2] + m), Round255(rgb[3] + m) >>

\* renderer.ts 331-357: FractalRenderer.hsvToRgb, the same text as worker.ts 120-146
RendererHsvToRgb(h, s100, v16) == HsvToRgb(h, s100, v16)

\* worker.ts 193-214: the RGBA pixel computeTile writes for the smooth iteration
\* count s (negative: inside the set), with saturation 0.85
TilePixel(s, maxIterations, colorHue) ==
    IF s < 0 THEN << 0, 0, 0, 255 >>
    ELSE LET t8 == Sqrt8(s, maxIterations)
             hue == (colorHue + t8 * 45) % 360
             value16 == 8 + t8
         IN  HsvToRgb(hue, 85, value16) \o << 255 >>

\* renderer.ts 313: const maxIterations = this.isInteracting ? 64 : 256
RecolorMaxIterations(interacting) == IF interacting THEN 64 ELSE 256

\* renderer.ts 304-322: the RGBA pixel recolor(newHue) writes for the cached
\* smooth iteration count s
RecolorPixel(s, newHue, interacting) ==
    IF s < 0 THEN << 0, 0, 0, 255 >>
    ELSE LET t8 == Sqrt8(s, RecolorMaxIterations(interacting))
             hue == (newHue + t8 * 45) % 360
             value16 == 8 + t8
         IN  RendererHsvToRgb(hue, 85, value16) \o << 255 >>

----------------------------------------------------------------------------
(* The Iteration Engine and the two colourings on their own: the driver     *)
(* holds the arguments of one call and, once it has run, its result.        *)

\* maxIterations of a computePixel call ranges over 0..MaxEngineIterations
MaxEngineIterations == 3

\* coordinates of the points and parameters: -1, 0, 1/2, 3, 32
EngineCoordinates == { Dy(-1, 0), Dy(0, 0), Dy(1, 1), Dy(3, 0), Dy(32, 0) }

\* the parameter c of Julia mode; z0 = 0 as on the page (page.tsx 26-34)
EngineParams ==
    { [ realZ0 |-> Dy(0, 0), imagZ0 |-> Dy(0, 0), realC |-> c[1], imagC |-> c[2] ] :
        c \in { << Dy(0, 0), Dy(0, 0) >>, << Dy(-1, 0), Dy(0, 0) >>, << Dy(3, 0), Dy(0, 0) >> } }

\* the arguments of computePixel, with the results of two invocations and the
\* worker's currentRequestId at each of them
PixelInputs ==
    [ kind : {"pixel"}, x0 : EngineCoordinates, y0 : EngineCoordinates,
      params : EngineParams, maxIterations : 0..MaxEngineIterations,
      useJulia : BOOLEAN, result : {NoResult}, resultAt : {NoRequest},
      again : {NoResult}, againAt : {NoRequest} ]

\* cached smooth iteration counts (-1: inside the set)
EngineIterationData == { -1, 0, 1, 4, 9, 16, 36, 64 }

\* colorHue, in degrees
EngineHues == { 0, 30, 200, 330 }

\* arguments of setResolution: 1/4, 1
EngineMultipliers == { [num |-> 1, den |-> 4], [num |-> 1, den |-> 1] }

\* zoom exponents of the viewport: zoom = 1, 16
EngineZooms == { 0, 4 }

\* renderer.ts 449-455, 489-495: maxIterations of the render request that
\* render() posts after setResolution(m), at zoom 2^zoomExp
SentMaxIterations(interacting, m, zoomExp) ==
    SentQuality(interacting,
                Rescaled(lowQuality, 64, 64, 32, m),
                Rescaled(highQuality, 256, 32, 16, m),
                zoomExp).maxIterations

\* one cached value with the state the compositor recolours it in, for which
\* both colourings stay on the grid of eighths
ColorInputs ==
    { i \in [ kind : {"color"}, smoothIter : EngineIterationData, colorHue : EngineHues,
              interacting : BOOLEAN, multiplier : EngineMultipliers,
              zoomExp : EngineZooms, full : {NoResult}, recolor : {NoResult} ] :
        LET sent == SentMaxIterations(i.interacting, i.multiplier, i.zoomExp)
        IN  i.smoothIter >= 0 =>
                /\ i.smoothIter < sent
                /\ HasSqrt8(i.smoothIter, sent)
                /\ HasSqrt8(i.smoothIter, RecolorMaxIterations(i.interacting)) }

\* worker.ts 189: computeTile calls computePixel
EngineComputePixel ==
    /\ harness.kind = "pixel"
    /\ harness.result = NoResult
    /\ harness' = [harness EXCEPT
          !.result = ComputePixel(harness.x0, harness.y0, harness.params,
                                  harness.maxIterations, harness.useJulia),
          !.resultAt = workerRequestId]
    /\ UNCHANGED << compositorVars, toWorker, toMain, workerVars >>

\* worker.ts 189: a second invocation of computePixel with the same arguments
EngineComputePixelAgain ==
    /\ harness.kind = "pixel"
    /\ harness.result # NoResult
    /\ harness.again = NoResult
    /\ harness' = [harness EXCEPT
          !.again = ComputePixel(harness.x0, harness.y0, harness.params,
                                 harness.maxIterations, harness.useJulia),
          !.againAt = workerRequestId]
    /\ UNCHANGED << compositorVars, toWorker, toMain, workerVars >>

\* a render request of two tiles, one tile per batch, reaches the worker while
\* the invocations of computePixel are made (types.ts 36-45)
EnginePostRender ==
    /\ harness.kind = "pixel"
    /\ workerRequestId = NoRequest
    /\ toWorker = << >>
    /\ toWorker' = << RenderRequest(1, 2, 1, viewport, params,
                                    [ maxIterations |-> harness.maxIterations,
                                      tileSize |-> 1, tilesPerFrame |-> 1 ]) >>
    /\ UNCHANGED << compositorVars, toMain, workerVars, harness >>

\* the arguments of a computePixel call with a complex exponent, as the
\* classes the loop branches on, and its result
ComplexInputs ==
    [ kind : {"complex"}, shortcut : BOOLEAN, m2 : RadiusClasses,
      oracle : [ 1..MaxEngineIterations -> PassOutcomes ],
      maxIterations : 0..MaxEngineIterations, result : {NoResult} ]

\* worker.ts 189: computeTile calls computePixel, params.imagExponent # 0
EngineComplexPixel ==
    /\ harness.kind = "complex"
    /\ harness.result = NoResult
    /\ harness' = [harness EXCEPT
          !.result = ComplexPixel(harness.shortcut, harness.m2, harness.oracle,
                                  harness.maxIterations)]
    /\ UNCHANGED << compositorVars, toWorker, toMain, workerVars >>

\* worker.ts 193-214: the pixel of a full render with the request's maxIterations
EngineFullRender ==
    /\ harness.kind = "color"
    /\ harness.full = NoResult
    /\ harness' = [harness EXCEPT !.full =
          TilePixel(harness.smoothIter,
                    SentMaxIterations(harness.interacting, harness.multiplier,
                                      harness.zoomExp),
                    harness.colorHue)]
    /\ UNCHANGED << compositorVars, toWorker, toMain, workerVars >>

\* renderer.ts 284-329: the pixel of recolor(colorHue) from the cached value
EngineRecolor ==
    /\ harness.kind = "color"
    /\ harness.recolor = NoResult
    /\ harness' = [harness EXCEPT !.recolor =
          RecolorPixel(harness.smoothIter, harness.colorHue, harness.interacting)]
    /\ UNCHANGED << compositorVars, toWorker, toMain, workerVars >>

----------------------------------------------------------------------------
(* Specifications *)

\* renderer.ts 8-81: the state after construction; worker.ts 8
InitCompositor(size, z) ==
    /\ canvas = [width |-> size.width, height |-> size.height, image |-> Black]
    /\ currentRequestId = 0
    /\ overscanCanvas = [ width |-> DefaultCanvasWidth, height |-> DefaultCanvasHeight,
                          seed |-> "black", blits |-> {} ]
    /\ overscanViewport = NoViewport
    /\ backgroundCanvas = [ width |-> DefaultCanvasWidth, height |-> DefaultCanvasHeight,
                            seed |-> "black", blits |-> {} ]
    /\ backgroundViewport = NoViewport
    /\ viewport = InitialViewport(z)
    /\ params = InitialParams
    /\ isInteracting = FALSE
    /\ lowQuality = [maxIterations |-> 64, tileSize |-> 64, tilesPerFrame |-> 8]
    /\ highQuality = [maxIterations |-> 256, tileSize |-> 32, tilesPerFrame |-> 4]
    /\ iterationData = NoData
    /\ iterationDataSize = [width |-> 0, height |-> 0]
    /\ resolutionMultiplier = [num |-> 1, den |-> 1]
    /\ sentLog = << >>

InitWorker ==
    /\ toWorker = << >>
    /\ toMain = << >>
    /\ workerRequestId = NoRequest
    /\ closures = << >>

Init ==
    /\ \E z \in InitialZooms : InitCompositor(InitialCanvasSize, z)
    /\ InitWorker
    /\ harness = NoHarness

Next ==
    \/ CallRender
    \/ \E size \in CanvasSizes : Resize(size)
    \/ StartInteraction
    \/ EndInteraction
    \/ \E d \in PanDeltas : Pan(d)
    \/ \E z \in ZoomCalls : Zoom(z.k, z.mouse)
    \/ \E update \in ParamUpdates : UpdateParams(update)
    \/ \E m \in Multipliers : SetResolution(m)
    \/ OnTile
    \/ WorkerOnMessage
    \/ \E r \in DOMAIN closures : WorkerTimer(r)

Spec == Init /\ [][Next]_vars

\* the head of toWorker is taken: the steps of WorkerOnMessage, and no others
MessageDelivered == toWorker # << >> /\ toWorker' = Tail(toWorker)

\* the host delivers every message posted to the worker (worker.ts 318) and to
\* the compositor (renderer.ts 84), and runs every timer set by
\* setTimeout(processBatch, 0) (worker.ts 310)
FairDelivery ==
    /\ WF_toWorker(MessageDelivered)
    /\ WF_vars(OnTile)
    /\ \A r \in 1..MaxRequestId : WF_vars(WorkerTimer(r))

\* page.tsx 126-131, 205-237: the page's first render and its resize and mouse
\* handlers, which call resize, startInteraction, pan and endInteraction
NextInteraction ==
    \/ CallRender
    \/ \E size \in CanvasSizes : Resize(size)
    \/ StartInteraction
    \/ EndInteraction
    \/ \E d \in PanDeltas : Pan(d)
    \/ OnTile
    \/ WorkerOnMessage
    \/ \E r \in DOMAIN closures : WorkerTimer(r)

SpecInteraction == Init /\ [][NextInteraction]_vars /\ FairDelivery

\* the zoom exponents of the constructor's initialViewport (renderer.ts 59, 65)
\* for the quality profiles: minZoom, 1, the zoom 2^12 at which the adaptive
\* maxIterations reaches its cap, and the largest power of two below maxZoom
QualityZooms == { MinZoomExp, 0, 12, MaxZoomExp }

\* the visible canvas of the quality specification (page.tsx 113-114): its final
\* requests have six tiles and take two batches
QualityCanvasSize == [width |-> 64, height |-> 32]

InitQuality ==
    /\ \E z \in QualityZooms : InitCompositor(QualityCanvasSize, z)
    /\ InitWorker
    /\ harness = NoHarness

\* the operations that select or change a quality profile or the zoom it is
\* adapted to, with the worker and the tile handler
NextQuality ==
    \/ CallRender
    \/ StartInteraction
    \/ EndInteraction
    \/ \E z \in ZoomCalls : Zoom(z.k, z.mouse)
    \/ \E m \in Multipliers : SetResolution(m)
    \/ OnTile
    \/ WorkerOnMessage
    \/ \E r \in DOMAIN closures : WorkerTimer(r)

SpecQuality == InitQuality /\ [][NextQuality]_vars

\* arguments of resize(width, height) that grow and shrink the canvas
\* (page.tsx 126-131: the window's size at each resize event)
ResizeSizes == { [width |-> 64, height |-> 32], [width |-> 32, height |-> 32] }

\* page.tsx 126-131, 270: renders and window resizes, with the worker and the
\* tile handler
NextResize ==
    \/ CallRender
    \/ \E size \in ResizeSizes : Resize(size)
    \/ OnTile
    \/ WorkerOnMessage
    \/ \E r \in DOMAIN closures : WorkerTimer(r)

SpecResize == Init /\ [][NextResize]_vars

InitHarness ==
    /\ InitCompositor([width |-> DefaultCanvasWidth, height |-> DefaultCanvasHeight], 0)
    /\ InitWorker
    /\ harness \in HarnessRequests

NextWorker ==
    \/ HarnessRender
    \/ HarnessCancel
    \/ HarnessOther
    \/ WorkerOnMessage
    \/ \E r \in DOMAIN closures : WorkerTimer(r)

SpecWorker == InitHarness /\ [][NextWorker]_vars

\* the host delivers every posted message (worker.ts 318) and runs every timer
\* set by setTimeout(processBatch, 0) (worker.ts 310)
FairWorker ==
    /\ WF_toWorker(MessageDelivered)
    /\ \A r \in 1..MaxHarnessMessages : WF_vars(WorkerTimer(r))

SpecWorkerFair == InitHarness /\ [][NextWorker]_vars /\ FairWorker

InitEngine ==
    /\ InitCompositor([width |-> DefaultCanvasWidth, height |-> DefaultCanvasHeight], 0)
    /\ InitWorker
    /\ harness \in PixelInputs \cup ColorInputs

NextEngine ==
    \/ EngineComputePixel
    \/ EngineComputePixelAgain
    \/ EnginePostRender
    \/ WorkerOnMessage
    \/ \E r \in DOMAIN closures : WorkerTimer(r)
    \/ EngineFullRender
    \/ EngineRecolor

SpecEngine == InitEngine /\ [][NextEngine]_vars

InitComplex ==
    /\ InitCompositor([width |-> DefaultCanvasWidth, height |-> DefaultCanvasHeight], 0)
    /\ InitWorker
    /\ harness \in ComplexInputs

NextComplex == EngineComplexPixel

SpecComplex == InitComplex /\ [][NextComplex]_vars

----------------------------------------------------------------------------
(* Properties *)

\* the compositor's message handler takes the TileResponse at the head of toMain
TileArrives == toMain # << >> /\ toMain' = Tail(toMain)

\* the record Blit leaves in the overscan buffer for a response
BlitOf(response) ==
    [ x |-> response.tile.x, y |-> response.tile.y, width |-> response.tile.width,
      height |-> response.tile.height, requestId |-> response.requestId ]

\* C1: an arriving TileResponse is blitted into the overscan buffer only if its
\* requestId equals currentRequestId; a response with any other requestId leaves
\* the overscan buffer, the visible surface, the persistent background and both
\* viewport tags unchanged.
C1_StaleTileDiscarded ==
    [][ TileArrives =>
          LET response == Head(toMain)
          IN  /\ BlitOf(response) \in overscanCanvas'.blits \ overscanCanvas.blits
                    => response.requestId = currentRequestId
              /\ response.requestId # currentRequestId
                    => UNCHANGED << overscanCanvas, canvas, backgroundCanvas,
                                    backgroundViewport, overscanViewport >> ]_vars

\* a tile of a superseded request is next to arrive while the visible surface
\* shows tiles that were accepted earlier
C1_Witness ==
    /\ toMain # << >>
    /\ Head(toMain).requestId # currentRequestId
    /\ canvas.image # Black
    /\ canvas.image.blits # {}

\* the compositor has posted a CancelRequest for id
CancelSent(id) == \E i \in DOMAIN sentLog : sentLog[i] = [type |-> "cancel", requestId |-> id]

\* C2 as claimed: after the compositor has sent a CancelRequest for id R, no
\* TileResponse carrying requestId = R arrives at the compositor's message handler.
C2_NoTileArrivesAfterCancel ==
    [][ TileArrives => ~CancelSent(Head(toMain).requestId) ]_vars

\* C2 as amended: after the compositor has sent a CancelRequest for id R, a
\* TileResponse carrying requestId = R may still arrive, but the handler discards
\* it: it changes neither the overscan buffer, the visible surface nor the
\* persistent background.
C2_NoTileAcceptedAfterCancel ==
    [][ TileArrives /\ CancelSent(Head(toMain).requestId) =>
          /\ BlitOf(Head(toMain)) \notin overscanCanvas'.blits
          /\ UNCHANGED << overscanCanvas, canvas, backgroundCanvas, backgroundViewport >> ]_vars

\* a tile is in flight to the compositor after the cancel for its request was sent
C2_Witness ==
    \E i \in DOMAIN toMain : CancelSent(toMain[i].requestId)

\* C3: the persistent background (buffer and tagged viewport) changes only in
\* the tile-arrival handler, on accepting a tile with isComplete = true while
\* isInteracting is false; no other operation modifies it, and an accepted
\* isComplete tile arriving while isInteracting is true does not.
C3_BackgroundReplacedOnlyOnCompletion ==
    [][ (backgroundCanvas' # backgroundCanvas \/ backgroundViewport' # backgroundViewport) =>
          /\ TileArrives
          /\ Head(toMain).requestId = currentRequestId
          /\ Head(toMain).isComplete
          /\ ~isInteracting ]_vars

\* a snapshot has been taken, and a later request's isComplete tile arrives in
\* interactive mode
C3_Witness ==
    /\ backgroundViewport # NoViewport
    /\ isInteracting
    /\ toMain # << >>
    /\ Head(toMain).isComplete
    /\ Head(toMain).requestId = currentRequestId

\* In SpecWorker toMain is never drained: it is the sequence of all responses
\* the worker has posted.

\* totalTiles of the harness's requests, from the request's own fields
HarnessTotalTiles ==
    CeilDiv(harness.canvasWidth, harness.tileSize)
        * CeilDiv(harness.canvasHeight, harness.tileSize)

\* positions in toMain of the responses of request r
ResponsesOf(r) == { i \in DOMAIN toMain : toMain[i].requestId = r }

\* toMain[i] is the n-th tile emitted for its request
EmittedCount(i) == Cardinality({ j \in ResponsesOf(toMain[i].requestId) : j <= i })

\* C4: a TileResponse carries isComplete = true if and only if it is the
\* totalTiles-th tile emitted for its request; so at most one response per
\* request is complete, it is the request's last, and a request stopped before
\* its last tile emits none.
C4_CompleteIffLastTile ==
    harness # NoHarness =>
        \A i \in DOMAIN toMain :
            /\ toMain[i].isComplete <=> (EmittedCount(i) = HarnessTotalTiles)
            /\ EmittedCount(i) <= HarnessTotalTiles

\* a request was completed in a batch after its first, and another request
\* stopped before its last tile
C4_Witness ==
    /\ harness # NoHarness
    /\ \E i \in DOMAIN toMain :
          toMain[i].isComplete /\ EmittedCount(i) > harness.tilesPerFrame
    /\ \E r \in 1..harness.lastId :
          /\ ResponsesOf(r) # {}
          /\ r # workerRequestId
          /\ \A i \in ResponsesOf(r) : ~toMain[i].isComplete

\* the responses of request r whose tile contains pixel (px, py)
Covering(r, px, py) ==
    { i \in ResponsesOf(r) :
        LET t == toMain[i].tile
        IN  /\ t.x <= px /\ px < t.x + t.width
            /\ t.y <= py /\ py < t.y + t.height }

\* C5: the tile rectangles of a request partition the canvas: no pixel lies in
\* two tiles, every pixel lies in a tile once the request is complete, every
\* tile has width and height >= 1 and lies inside the canvas, and edge tiles
\* are clipped to the remaining pixels.
C5_TilesPartitionCanvas ==
    harness # NoHarness =>
        \A r \in 1..harness.lastId :
            /\ \A i \in ResponsesOf(r) :
                  LET t == toMain[i].tile
                  IN  /\ t.width >= 1 /\ t.height >= 1
                      /\ t.x >= 0 /\ t.y >= 0
                      /\ t.x + t.width <= harness.canvasWidth
                      /\ t.y + t.height <= harness.canvasHeight
                      /\ t.width = Min(harness.tileSize, harness.canvasWidth - t.x)
                      /\ t.height = Min(harness.tileSize, harness.canvasHeight - t.y)
            /\ \A px \in 0..(harness.canvasWidth - 1), py \in 0..(harness.canvasHeight - 1) :
                  /\ Cardinality(Covering(r, px, py)) <= 1
                  /\ (\E i \in ResponsesOf(r) : toMain[i].isComplete)
                        => Cardinality(Covering(r, px, py)) = 1

\* a request with a clipped edge tile has emitted all its tiles
C5_Witness ==
    /\ harness # NoHarness
    /\ \E i \in DOMAIN toMain :
          /\ toMain[i].isComplete
          /\ \E j \in ResponsesOf(toMain[i].requestId) :
                toMain[j].tile.width < harness.tileSize

\* squared distance of the tile of toMain[i] from the centre tile, and its
\* position in row-major order, in tile-grid units
GridDist2(i) ==
    LET tilesX == CeilDiv(harness.canvasWidth, harness.tileSize)
        tilesY == CeilDiv(harness.canvasHeight, harness.tileSize)
        tx == toMain[i].tile.x \div harness.tileSize
        ty == toMain[i].tile.y \div harness.tileSize
    IN  (tx - tilesX \div 2) * (tx - tilesX \div 2) + (ty - tilesY \div 2) * (ty - tilesY \div 2)

GridIndex(i) ==
    LET tilesX == CeilDiv(harness.canvasWidth, harness.tileSize)
    IN  (toMain[i].tile.y \div harness.tileSize) * tilesX
            + toMain[i].tile.x \div harness.tileSize

\* C6: the tiles of a request are emitted in non-decreasing distance from the
\* centre tile (floor(tilesX/2), floor(tilesY/2)), tiles at equal distance in
\* row-major order; in a 3x3 grid the centre tile is emitted first.
C6_CenterOutOrder ==
    harness # NoHarness =>
        \A r \in 1..harness.lastId :
            /\ \A i, j \in ResponsesOf(r) :
                  i < j => \/ GridDist2(i) < GridDist2(j)
                           \/ GridDist2(i) = GridDist2(j) /\ GridIndex(i) < GridIndex(j)
            /\ ( /\ ResponsesOf(r) # {}
                 /\ CeilDiv(harness.canvasWidth, harness.tileSize) = 3
                 /\ CeilDiv(harness.canvasHeight, harness.tileSize) = 3 )
                  => LET first == CHOOSE i \in ResponsesOf(r) :
                                      \A j \in ResponsesOf(r) : i <= j
                     IN  /\ toMain[first].tile.x = harness.tileSize
                         /\ toMain[first].tile.y = harness.tileSize

\* all nine tiles of a 3x3 grid have been emitted
C6_Witness ==
    /\ harness # NoHarness
    /\ CeilDiv(harness.canvasWidth, harness.tileSize) = 3
    /\ CeilDiv(harness.canvasHeight, harness.tileSize) = 3
    /\ \E r \in 1..harness.lastId : Cardinality(ResponsesOf(r)) = 9

\* a step of pan(): the viewport's centre moves and its zoom stays
PanStep ==
    /\ viewport'.zoom = viewport.zoom
    /\ viewport'.centerX # viewport.centerX \/ viewport'.centerY # viewport.centerY

\* vp's zoom is within 1% of the overscan buffer's zoom, and its centre within
\* 20% of the visible scale 4 / zoom = 2^(2 - zoom) of the overscan buffer's centre
WithinOverscan(vp, overscanVp) ==
    /\ overscanVp # NoViewport
    /\ LET m == Min(vp.zoom, overscanVp.zoom)
       IN  100 * Abs(Pow2(vp.zoom - m) - Pow2(overscanVp.zoom - m)) <= Pow2(vp.zoom - m)
    /\ ~DyGreater(DyTimes(5, DyAbs(DySub(vp.centerX, overscanVp.centerX))),
                  Dy(1, vp.zoom - 2))
    /\ ~DyGreater(DyTimes(5, DyAbs(DySub(vp.centerY, overscanVp.centerY))),
                  Dy(1, vp.zoom - 2))

\* C7 as claimed: a pan() that leaves the viewport within 1% zoom and 20%
\* translation of the overscan buffer sends no message to the worker and does
\* not change currentRequestId.
C7_SmallPanSendsNothing ==
    [][ PanStep /\ WithinOverscan(viewport', overscanViewport) =>
          /\ toWorker' = toWorker
          /\ sentLog' = sentLog
          /\ currentRequestId' = currentRequestId ]_vars

\* C7 as amended: a pan() called while isInteracting is false that leaves the
\* viewport within 1% zoom and 20% translation of the overscan buffer sends no
\* message to the worker and does not change currentRequestId; it only re-crops
\* the existing overscan buffer onto the visible surface.
C7_SmallPanOutsideInteractionSendsNothing ==
    [][ PanStep /\ ~isInteracting /\ WithinOverscan(viewport', overscanViewport) =>
          /\ toWorker' = toWorker
          /\ sentLog' = sentLog
          /\ currentRequestId' = currentRequestId
          /\ UNCHANGED << overscanCanvas, overscanViewport >>
          /\ canvas' = UpdateMainCanvas(canvas, overscanCanvas, overscanViewport) ]_vars

\* a pan has moved the viewport off the overscan buffer's centre without a new
\* render, and the visible surface shows the re-cropped buffer
C7_Witness ==
    /\ ~isInteracting
    /\ overscanViewport # NoViewport
    /\ viewport # overscanViewport
    /\ WithinOverscan(viewport, overscanViewport)
    /\ canvas.image # Black

\* C8: every call of render() increments currentRequestId by exactly one and
\* posts exactly two messages, in this order: a CancelRequest carrying the
\* previous id, then a RenderRequest carrying the new id with the current
\* viewport, params and selected quality.
C8_RenderPostsCancelThenRender ==
    [][ (currentRequestId' # currentRequestId \/ sentLog' # sentLog) =>
          LET n == Len(toWorker)
          IN  /\ currentRequestId' = currentRequestId + 1
              /\ Len(toWorker') = n + 2
              /\ SubSeq(toWorker', 1, n) = toWorker
              /\ toWorker'[n + 1] = [type |-> "cancel", requestId |-> currentRequestId]
              /\ toWorker'[n + 2].type = "render"
              /\ toWorker'[n + 2].requestId = currentRequestId'
              /\ toWorker'[n + 2].viewport = viewport'
              /\ toWorker'[n + 2].params = params'
              /\ toWorker'[n + 2].quality =
                    (IF isInteracting' THEN lowQuality' ELSE highQuality')
              /\ Len(sentLog') = Len(sentLog) + 2 ]_vars

\* two calls of render() have queued their four messages for the worker
C8_Witness ==
    /\ currentRequestId = 2
    /\ Len(toWorker) = 4
    /\ toWorker[3] = [type |-> "cancel", requestId |-> 1]
    /\ toWorker[4].type = "render"

\* the render and cancel requests still queued for the worker
QueuedRequests == { i \in DOMAIN toWorker : toWorker[i].type \in {"render", "cancel"} }

\* the render or cancel request the worker has handled last, by the harness's
\* log: 0 if none
HandledCount == Len(harness.log) - Cardinality(QueuedRequests)

\* C9: every TileResponse the worker posts carries the requestId of the most
\* recent RenderRequest the worker has processed, with no CancelRequest
\* processed since; a request superseded by a cancel or by another render
\* request emits no further tile, and all tiles of one step are of one request.
C9_OnlyActiveRequestEmits ==
    [][ (harness # NoHarness /\ Len(toMain') > Len(toMain)) =>
          \A i \in (Len(toMain) + 1)..Len(toMain') :
              /\ HandledCount' >= 1
              /\ harness'.log[HandledCount'] =
                    [type |-> "render", requestId |-> toMain'[i].requestId] ]_vars

\* a request that has emitted tiles and has its next batch scheduled is no
\* longer the worker's current request
C9_Witness ==
    /\ harness # NoHarness
    /\ \E r \in DOMAIN closures :
          /\ closures[r].scheduled
          /\ closures[r].tilesComputed > 0
          /\ workerRequestId # r
          /\ workerRequestId # NoRequest

\* C10: one step of the worker posts at most tilesPerFrame tiles; the tiles
\* the current request has left are then scheduled for a later step.
C10_BatchBoundedByTilesPerFrame ==
    [][ harness # NoHarness =>
          /\ Len(toMain') - Len(toMain) <= harness.tilesPerFrame
          /\ \A r \in 1..harness.lastId :
                ( /\ r = workerRequestId'
                  /\ HandledCount' >= 1
                  /\ harness'.log[HandledCount'].requestId = r
                  /\ Cardinality({ i \in DOMAIN toMain' : toMain'[i].requestId = r })
                        < HarnessTotalTiles )
                    => r \in DOMAIN closures' /\ closures'[r].scheduled ]_vars

\* between two batches of a request the worker has handled a cancel: the
\* request has emitted one batch, has tiles left and its next batch is scheduled
C10_Witness ==
    /\ harness # NoHarness
    /\ workerRequestId = NoRequest
    /\ \E r \in DOMAIN closures :
          /\ closures[r].scheduled
          /\ closures[r].tilesComputed = harness.tilesPerFrame
          /\ closures[r].tileIndex < closures[r].totalTiles

\* the render request render() has just posted
LastPosted == toWorker'[Len(toWorker')]

\* C11: a RenderRequest carries the interactive (low) profile if and only if
\* isInteracting is true when render() runs, and the final (high) profile
\* otherwise; a step that ends the interaction posts a final-profile request.
C11_QualityFollowsInteraction ==
    [][ /\ sentLog' # sentLog =>
              /\ LastPosted.type = "render"
              /\ isInteracting' <=> ( /\ LastPosted.quality = lowQuality'
                                      /\ LastPosted.quality.tilesPerFrame = 8 )
              /\ ~isInteracting' <=> ( /\ LastPosted.quality = highQuality'
                                       /\ LastPosted.quality.tilesPerFrame = 4 )
        /\ (isInteracting /\ ~isInteracting') =>
              /\ sentLog' # sentLog
              /\ LastPosted.quality = highQuality'
              /\ LastPosted.quality.tilesPerFrame = 4 ]_vars

\* an interactive request and, after the interaction ended, a final request
\* are queued for the worker
C11_Witness ==
    /\ ~isInteracting
    /\ \E i, j \in DOMAIN toWorker :
          /\ i < j
          /\ toWorker[i].type = "render" /\ toWorker[i].quality.tilesPerFrame = 8
          /\ toWorker[j].type = "render" /\ toWorker[j].quality.tilesPerFrame = 4

\* the compositor has posted the render request id with isInteracting = interacting
RenderLogged(id, interacting) ==
    \E i \in DOMAIN sentLog :
        sentLog[i] = [type |-> "render", requestId |-> id, interacting |-> interacting]

\* the number of pixels of a set of blits
RECURSIVE AreaOf(_)
AreaOf(blits) ==
    IF blits = {} THEN 0
    ELSE LET b == CHOOSE t \in blits : TRUE
         IN  b.width * b.height + AreaOf(blits \ {b})

\* every pixel of the snapshot was drawn by the tiles of one request, posted
\* while isInteracting was false
SnapshotIsFinalQuality(snapshot) ==
    /\ snapshot.blits # {}
    /\ \A a, b \in snapshot.blits : a.requestId = b.requestId
    /\ \A b \in snapshot.blits : RenderLogged(b.requestId, FALSE)
    /\ AreaOf(snapshot.blits) = snapshot.width * snapshot.height

\* C12: every snapshot stored as persistent background was rendered by a
\* request issued with the final-quality profile: no tile of a request issued
\* while isInteracting was true is accepted while isInteracting is false.
C12_SnapshotIsFinalQuality ==
    [][ /\ ( /\ TileArrives
             /\ ~isInteracting
             /\ RenderLogged(Head(toMain).requestId, TRUE) )
               => UNCHANGED << overscanCanvas, canvas, backgroundCanvas, backgroundViewport >>
        /\ backgroundViewport' # NoViewport => SnapshotIsFinalQuality(backgroundCanvas') ]_vars

\* a tile of an interactive request arrived after the interaction had ended,
\* and a snapshot has been stored since
C12_Witness ==
    /\ backgroundViewport # NoViewport
    /\ \E id \in 1..currentRequestId :
          /\ RenderLogged(id, TRUE)
          /\ \A i \in DOMAIN toMain : toMain[i].requestId # id
          /\ id \notin DOMAIN closures
          /\ \A i \in DOMAIN toWorker : toWorker[i].requestId # id \/ toWorker[i].type = "cancel"

\* a step in which render() runs
RenderStep == currentRequestId' # currentRequestId

\* C13: on render() the new overscan buffer is seeded from the persistent
\* background whenever one exists (backgroundViewport set and a non-empty
\* background buffer); otherwise from the previous overscan buffer if there was a
\* previous render; it is left black only when neither exists (the first render).
C13_SeedPrefersBackground ==
    [][ RenderStep =>
          LET backgroundExists == /\ backgroundViewport # NoViewport
                                  /\ backgroundCanvas.width > 0
                                  /\ backgroundCanvas.height > 0
              previousRender == currentRequestId >= 1
          IN  /\ overscanCanvas'.blits = {}
              /\ backgroundExists => overscanCanvas'.seed = "background"
              /\ (~backgroundExists /\ previousRender) => overscanCanvas'.seed = "overscan"
              /\ overscanCanvas'.seed = "black" <=> (~backgroundExists /\ ~previousRender)
              /\ overscanCanvas'.seed = "black" => currentRequestId' = 1 ]_vars

\* a render after a stored snapshot has seeded the new overscan buffer from the
\* persistent background
C13_Witness ==
    /\ currentRequestId >= 2
    /\ backgroundViewport # NoViewport
    /\ overscanCanvas.seed = "background"

\* a step of pan() or zoom(): the viewport changes
PanOrZoomStep == viewport' # viewport

\* the visible surface shows a crop of a buffer that render() seeded from the
\* persistent background or the previous overscan buffer
ShowsSeededBuffer(cv) ==
    /\ cv.image # Black
    /\ cv.image.seed \in {"background", "overscan"}

\* C14 as claimed: in any sequence of pan() and zoom() calls after the first
\* render, the visible surface is never written with a blank (unseeded,
\* all-black) buffer: every buffer copied to the visible surface was seeded from
\* the persistent background or the previous overscan buffer, and pan/zoom
\* themselves never clear the visible surface.
C14_NeverBlankAfterFirstRender ==
    [][ (PanOrZoomStep /\ currentRequestId >= 1) =>
          /\ canvas' # canvas => ShowsSeededBuffer(canvas')
          /\ canvas.image # Black => canvas'.image # Black ]_vars

\* C14 as amended: in any sequence of pan() and zoom() calls after the first
\* render, every overscan buffer a render() creates is seeded from the persistent
\* background or the previous overscan buffer, and pan/zoom themselves never
\* clear or resize the visible surface; the only unseeded buffer ever copied to
\* the visible surface is that of the first render, while no later render has
\* replaced it.
C14_OnlyFirstBufferUnseeded ==
    [][ /\ (RenderStep /\ currentRequestId >= 1) =>
              overscanCanvas'.seed \in {"background", "overscan"}
        /\ (canvas' # canvas /\ canvas'.image # Black /\ ~ShowsSeededBuffer(canvas')) =>
              currentRequestId' = 1
        /\ PanOrZoomStep =>
              /\ canvas'.width = canvas.width /\ canvas'.height = canvas.height
              /\ canvas.image # Black => canvas'.image # Black ]_vars

\* after a pan or zoom the visible surface shows a seeded buffer with tiles of
\* the request that pan or zoom issued
C14_Witness ==
    /\ ShowsSeededBuffer(canvas)
    /\ canvas.image.blits # {}
    /\ \A z \in InitialZooms : canvas.image.viewport # InitialViewport(z)

\* C15: the initial viewport's zoom lies in [minZoom, maxZoom] = [0.5, 1e12], and
\* after any sequence of zoom() calls, interleaved with any other compositor
\* operations, viewport.zoom still lies in [0.5, 1e12]: 2^-1 <= 2^zoom <= 2^39,
\* the largest power of two that is at most 1e12.
C15_ZoomStaysWithinLimits ==
    /\ -1 <= viewport.zoom
    /\ viewport.zoom <= 39
    /\ overscanViewport # NoViewport =>
          (-1 <= overscanViewport.zoom /\ overscanViewport.zoom <= 39)

\* zoom() has brought the viewport to minZoom, where a further zoom-out is refused
C15_Witness ==
    /\ viewport.zoom = -1
    /\ overscanViewport # NoViewport
    /\ overscanViewport.zoom = -1

\* the driver of SpecEngine has run both colourings of a cached value
BothColoured ==
    /\ harness.kind = "color"
    /\ harness.full # NoResult
    /\ harness.recolor # NoResult

\* C16 as claimed: when updateParams changes only colorHue to H and cached
\* iteration data exists, the pixels produced by the fast recolor are identical
\* to those a full re-render with hue H at the same quality profile (the
\* maxIterations actually sent in the render request) would produce.
C16_RecolorEqualsFullRender ==
    BothColoured => harness.recolor = harness.full

\* the driver of SpecEngine has run computePixel
PixelComputed == harness.kind = "pixel" /\ harness.result # NoResult

\* C18: in Mandelbrot mode, for every point that satisfies the main-cardioid test
\* or the period-2-bulb test, computePixel returns exactly -1 (inside) for every
\* maxIterations, 0 included, without executing any iteration; in Julia mode
\* both tests are skipped and the result is that of the iteration loop.
C18_InteriorShortcut ==
    PixelComputed =>
        LET inside == \/ IsInCardioid(harness.x0, harness.y0)
                      \/ IsInPeriod2Bulb(harness.x0, harness.y0)
        IN  /\ (~harness.useJulia /\ inside) =>
                  /\ harness.result.kind = "inside"
                  /\ harness.result.iterations = 0
                  /\ harness.result.shortcut
            /\ harness.useJulia =>
                  /\ ~harness.result.shortcut
                  /\ harness.result =
                        Iterate(harness.x0, harness.y0, harness.params.realC,
                                harness.params.imagC, 0, harness.maxIterations)

\* computePixel has run, with maxIterations > 0, on the point -1 of the
\* period-2 bulb in Mandelbrot mode
C18_Witness ==
    /\ PixelComputed
    /\ ~harness.useJulia
    /\ harness.x0 = Dy(-1, 0) /\ harness.y0 = Dy(0, 0)
    /\ IsInPeriod2Bulb(harness.x0, harness.y0)
    /\ ~IsInCardioid(harness.x0, harness.y0)
    /\ harness.maxIterations > 0

\* |c|^2 of a computePixel call: c is the point in Mandelbrot mode, the
\* parameter c in Julia mode
NormSquaredOfC ==
    LET cr == IF harness.useJulia THEN harness.params.realC ELSE harness.x0
        ci == IF harness.useJulia THEN harness.params.imagC ELSE harness.y0
    IN  DyAdd(DyMul(cr, cr), DyMul(ci, ci))

\* C19 as claimed: for any point with |c| > 2 and any maxIterations, the
\* Iteration Engine returns a finite value in [0, maxIterations + 1), never the
\* inside sentinel -1 nor any other negative value.
C19_OutsideDiskNeverNegative ==
    (PixelComputed /\ DyGreater(NormSquaredOfC, Dy(4, 0))) =>
        /\ harness.result.kind = "escaped"
        /\ harness.result.floor >= 0
        /\ harness.result.floor < harness.maxIterations + 1

\* the step handles the render request that carries id
HandlesRender(id) ==
    /\ toWorker # << >>
    /\ toWorker' = Tail(toWorker)
    /\ Head(toWorker).type = "render"
    /\ Head(toWorker).requestId = id

\* the mode the parameters pr (in thousandths) select: Julia exactly when
\* (|realC| > 0.001 or |imagC| > 0.001) and (|realZ0| < 0.001 and |imagZ0| < 0.001)
JuliaSelected(pr) ==
    /\ (pr.realC > 1 \/ pr.realC < -1 \/ pr.imagC > 1 \/ pr.imagC < -1)
    /\ -1 < pr.realZ0 /\ pr.realZ0 < 1
    /\ -1 < pr.imagZ0 /\ pr.imagZ0 < 1

\* C17: for every render request the mode is Julia exactly when (|realC| > 0.001
\* or |imagC| > 0.001) and (|realZ0| < 0.001 and |imagZ0| < 0.001), Mandelbrot
\* otherwise, and the same mode is used for every tile of that request, in its
\* first batch and in the batches its timers run.
C17_ModeFixedPerRequest ==
    [][ /\ \A i \in (Len(toMain) + 1)..Len(toMain') :
              LET id == toMain'[i].requestId
                  pr == IF HandlesRender(id) THEN Head(toWorker).params
                        ELSE closures[id].params
              IN  toMain'[i].tile.imageData.useJulia = JuliaSelected(pr)
        /\ \A id \in DOMAIN closures' :
              HandlesRender(id) => closures'[id].params = Head(toWorker).params
        /\ \A id \in DOMAIN closures' \cap DOMAIN closures :
              ~HandlesRender(id) => closures'[id].params = closures[id].params
        /\ \A i, j \in DOMAIN toMain' :
              toMain'[i].requestId = toMain'[j].requestId =>
                  toMain'[i].tile.imageData.useJulia = toMain'[j].tile.imageData.useJulia
      ]_vars

\* a request in Julia mode has emitted tiles in two batches, and tiles of a
\* Mandelbrot request are in flight as well
C17_Witness ==
    /\ harness = NoHarness
    /\ \E i, j \in DOMAIN toMain :
          /\ toMain[i].tile.imageData.useJulia
          /\ toMain[i].isComplete
          /\ Cardinality(ResponsesOf(toMain[i].requestId)) > highQuality.tilesPerFrame
          /\ ~toMain[j].tile.imageData.useJulia

\* the step delivers to the worker a message whose type is neither "render" nor
\* "cancel"
UnknownMessageDelivered ==
    /\ toWorker # << >>
    /\ toWorker' = Tail(toWorker)
    /\ Head(toWorker).type \notin {"render", "cancel"}

\* C20: a message delivered to the worker whose type is neither "render" nor
\* "cancel" leaves the worker's state (currentRequestId and any scheduled batch)
\* unchanged and produces no response.
C20_UnknownMessageIgnored ==
    [][ UnknownMessageDelivered =>
          /\ workerRequestId' = workerRequestId
          /\ closures' = closures
          /\ toMain' = toMain ]_vars

\* a message of unknown type, posted after the render request that is now
\* active, is delivered next, between two batches of that request
C20_Witness ==
    /\ harness # NoHarness
    /\ toWorker # << >>
    /\ Head(toWorker).type = "other"
    /\ workerRequestId = Head(toWorker).requestId
    /\ workerRequestId \in DOMAIN closures
    /\ closures[workerRequestId].scheduled
    /\ closures[workerRequestId].tilesComputed = harness.tilesPerFrame

\* the driver of SpecEngine has invoked computePixel twice with the same arguments
PixelComputedTwice ==
    /\ harness.kind = "pixel"
    /\ harness.result # NoResult
    /\ harness.again # NoResult

ResizeStep ==
    \/ canvas'.width # canvas.width
    \/ canvas'.height # canvas.height
    \/ canvas.image # Black /\ canvas'.image = Black

\* a step of zoom() that stays within the zoom limits: the zoom changes
ZoomStep == viewport'.zoom # viewport.zoom

\* the fast recolor can serve a hue-only update: cached iteration data of the
\* overscan buffer's size exists
CacheServes ==
    /\ iterationData # NoData
    /\ iterationDataSize.width = overscanCanvas.width
    /\ iterationDataSize.height = overscanCanvas.height

\* a step of updateParams() that changes a parameter and is not a hue-only
\* change served from the recolor cache
ParamsStep ==
    /\ params' # params
    /\ ~( /\ \A k \in DOMAIN params \ {"colorHue"} : params'[k] = params[k]
          /\ CacheServes )

\* the step issues exactly one render request: one cancel for the previous id,
\* then one render for the new id
OneRequestIssued ==
    /\ currentRequestId' = currentRequestId + 1
    /\ toWorker' = toWorker \o << toWorker'[Len(toWorker) + 1], toWorker'[Len(toWorker) + 2] >>
    /\ Len(toWorker') = Len(toWorker) + 2
    /\ toWorker'[Len(toWorker) + 1] = [type |-> "cancel", requestId |-> currentRequestId]
    /\ toWorker'[Len(toWorker) + 2].type = "render"
    /\ toWorker'[Len(toWorker) + 2].requestId = currentRequestId + 1

\* C22: resize(), every zoom() that stays within the zoom limits, and every
\* updateParams() that is not a hue-only change served from the recolor cache
\* each issue exactly one new render request (one cancel message followed by one
\* render message).
C22_TriggersIssueOneRequest ==
    [][ (ResizeStep \/ ZoomStep \/ ParamsStep) => OneRequestIssued ]_vars

\* a resize and a hue-only updateParams without cached iteration data have each
\* issued a request
C22_Witness ==
    /\ canvas.width = 64
    /\ params.colorHue = 30000
    /\ params.realC = 0
    /\ iterationData = NoData
    /\ currentRequestId = 2
    /\ Len(sentLog) = 4
    /\ sentLog[3] = [type |-> "cancel", requestId |-> 1]

\* request r has emitted all its tiles, the last one with isComplete = true
AllTilesEmitted(r) ==
    /\ Cardinality(ResponsesOf(r)) = HarnessTotalTiles
    /\ \A i \in ResponsesOf(r) :
          toMain[i].isComplete <=> (\A j \in ResponsesOf(r) : j <= i)

\* the worker has a batch of request r scheduled
BatchScheduled(r) == r \in DOMAIN closures /\ closures[r].scheduled

\* C23: a render request with tilesPerFrame >= 1 and totalTiles >= 1 that is
\* neither cancelled nor superseded eventually emits all totalTiles tiles, the
\* last one with isComplete = true, after which the worker schedules no further
\* batch for it (the host runs scheduled batches fairly).
C23_RequestRunsToCompletion ==
    /\ \A r \in 1..MaxHarnessMessages :
          (workerRequestId = r) ~> (AllTilesEmitted(r) \/ workerRequestId # r)
    /\ [](\A r \in 1..MaxHarnessMessages : AllTilesEmitted(r) => ~BatchScheduled(r))

\* a request of more than one batch has emitted all its tiles and is still the
\* worker's current request, with no batch scheduled
C23_Witness ==
    /\ harness # NoHarness
    /\ HarnessTotalTiles > 2 * harness.tilesPerFrame
    /\ workerRequestId >= 1
    /\ AllTilesEmitted(workerRequestId)
    /\ ~BatchScheduled(workerRequestId)

\* request k is the compositor's current request, issued for the current
\* viewport outside interactive mode, as after endInteraction()
FinalRequestCurrent(k) ==
    /\ currentRequestId = k
    /\ ~isInteracting
    /\ overscanViewport = viewport

\* the persistent background is a snapshot of request k's tiles, tagged with
\* the current viewport
SnapshotOf(k) ==
    /\ backgroundViewport = viewport
    /\ backgroundCanvas.blits # {}
    /\ \A b \in backgroundCanvas.blits : b.requestId = k

SnapshotStep ==
    backgroundCanvas' # backgroundCanvas \/ backgroundViewport' # backgroundViewport

\* totalTiles of a request for the buffer with the given tileSize (worker.ts 236-238)
TotalTilesOf(buffer, tileSize) ==
    CeilDiv(buffer.width, tileSize) * CeilDiv(buffer.height, tileSize)

\* the tiles of request k blitted into the buffer
TilesOf(buffer, k) == { b \in buffer.blits : b.requestId = k }

\* C25: whenever the compositor snapshots the overscan buffer as the persistent
\* background, every one of the totalTiles tiles of the completing request has
\* already been blitted into the overscan buffer, for every order in which that
\* request's tile responses can arrive (the channel delivers them in the order
\* the worker posted them).
C25_SnapshotHasAllTiles ==
    [][ SnapshotStep =>
          LET k == Head(toMain).requestId
              totalTiles == TotalTilesOf(overscanCanvas, highQuality.tileSize)
          IN  /\ TileArrives
              /\ Head(toMain).isComplete
              /\ Cardinality(TilesOf(overscanCanvas, k)) = totalTiles - 1
              /\ BlitOf(Head(toMain)) \notin overscanCanvas.blits
              /\ Cardinality(TilesOf(overscanCanvas', k)) = totalTiles
              /\ overscanCanvas'.blits = TilesOf(overscanCanvas', k)
              /\ AreaOf(overscanCanvas'.blits) = overscanCanvas'.width * overscanCanvas'.height
              /\ backgroundCanvas' = overscanCanvas' ]_vars

\* the isComplete tile of a request of six tiles in two batches is next to
\* arrive outside interactive mode; the other five have been blitted
C25_Witness ==
    /\ toMain # << >>
    /\ Head(toMain).isComplete
    /\ Head(toMain).requestId = currentRequestId
    /\ ~isInteracting
    /\ TotalTilesOf(overscanCanvas, highQuality.tileSize) = 6
    /\ Cardinality(TilesOf(overscanCanvas, currentRequestId)) = 5

\* C26: after every render() the overscan buffer's tagged viewport equals the
\* viewport carried by the most recently issued RenderRequest, and after every
\* snapshot the background's tagged viewport equals the viewport carried by the
\* request whose isComplete tile triggered that snapshot.
C26_BuffersTaggedWithRequestViewport ==
    [][ /\ RenderStep =>
              /\ LastPosted.type = "render"
              /\ LastPosted.requestId = currentRequestId'
              /\ overscanViewport' = LastPosted.viewport
        /\ SnapshotStep =>
              /\ TileArrives
              /\ Head(toMain).isComplete
              /\ backgroundViewport' = Head(toMain).tile.imageData.viewport ]_vars

\* the isComplete tile that triggers a snapshot is next to arrive after a pan
\* has moved the compositor's viewport away from the request's viewport
C26_Witness ==
    /\ toMain # << >>
    /\ Head(toMain).isComplete
    /\ Head(toMain).requestId = currentRequestId
    /\ ~isInteracting
    /\ Head(toMain).tile.imageData.viewport = overscanViewport
    /\ viewport # overscanViewport

\* totalTiles of a render request, from its own fields (worker.ts 236-238)
RequestTotalTiles(request) ==
    CeilDiv(request.canvasWidth, request.quality.tileSize)
        * CeilDiv(request.canvasHeight, request.quality.tileSize)

CancelDelivered ==
    /\ toWorker # << >>
    /\ toWorker' = Tail(toWorker)
    /\ Head(toWorker).type = "cancel"

\* C28: in the composed system (compositor, FIFO channel, worker) the most
\* recently issued render request is never stopped by a CancelRequest: every
\* cancel is processed by the worker before the render request issued in the
\* same render() call, although the worker's cancel handler ignores the
\* requestId the cancel carries and stops whatever request is active.
C28_CancelNeverStopsNewestRequest ==
    [][ /\ CancelDelivered =>
              /\ workerRequestId' = NoRequest
              /\ workerRequestId # currentRequestId
              /\ workerRequestId \in {NoRequest, Head(toWorker).requestId}
              /\ Len(toWorker) >= 2
              /\ toWorker[2].type = "render"
              /\ toWorker[2].requestId = Head(toWorker).requestId + 1
        /\ (workerRequestId = currentRequestId /\ currentRequestId' = currentRequestId) =>
              workerRequestId' = currentRequestId ]_vars

\* the cancel posted by the second render() is next to be delivered while the
\* first request is active between two batches, with the second request behind it
C28_Witness ==
    /\ harness = NoHarness
    /\ currentRequestId = 2
    /\ Len(toWorker) = 2
    /\ Head(toWorker) = CancelRequest(1)
    /\ toWorker[2].type = "render"
    /\ workerRequestId = 1
    /\ 1 \in DOMAIN closures
    /\ closures[1].scheduled

\* the render requests the compositor has issued, in the order of issue
IssuedRenders == SelectSeq(sentLog, LAMBDA e : e.type = "render")

\* C29: the requestIds of the RenderRequests issued by one FractalRenderer are
\* 1, 2, 3, ... (strictly increasing by one, never reused) and never equal -1,
\* the value the worker installs on cancel and at start-up, so no issued request
\* can match the worker's cancelled/idle state.
C29_RequestIdsCountFromOne ==
    /\ Len(IssuedRenders) = currentRequestId
    /\ \A i \in DOMAIN IssuedRenders :
          /\ IssuedRenders[i].requestId = i
          /\ IssuedRenders[i].requestId # NoRequest
    /\ \A i \in DOMAIN toWorker :
          toWorker[i].type = "render" =>
              /\ toWorker[i].requestId \in 1..currentRequestId
              /\ toWorker[i].requestId # NoRequest
    /\ \A i \in DOMAIN toMain : toMain[i].requestId \in 1..currentRequestId
    /\ \A r \in DOMAIN closures : r \in 1..currentRequestId
    /\ workerRequestId = NoRequest =>
          /\ \A i \in DOMAIN toMain : toMain[i].requestId # workerRequestId
          /\ \A r \in DOMAIN closures : closures[r].requestId # workerRequestId

\* the worker has been set to -1 by the second cancel while the first request
\* still has a batch scheduled and the second request is queued
C29_Witness ==
    /\ harness = NoHarness
    /\ currentRequestId = 2
    /\ Len(IssuedRenders) = 2
    /\ workerRequestId = NoRequest
    /\ 1 \in DOMAIN closures
    /\ closures[1].scheduled
    /\ toWorker # << >>
    /\ Head(toWorker).type = "render"
    /\ Head(toWorker).requestId = 2

\* C30: while isInteracting is true, every pan() call issues a new render
\* request with the interactive profile, however small the pan is: also when the
\* new viewport is within 1% zoom and 20% translation of the overscan buffer.
C30_InteractivePanAlwaysRenders ==
    [][ (PanStep /\ isInteracting) =>
          /\ OneRequestIssued
          /\ LastPosted.viewport = viewport'
          /\ LastPosted.quality = lowQuality'
          /\ LastPosted.quality.tilesPerFrame = 8
          /\ lowQuality' = lowQuality
          /\ isInteracting' ]_vars

\* two consecutive requests are queued whose viewports differ by a pan below the
\* re-render threshold; the second was issued in interactive mode
C30_Witness ==
    /\ isInteracting
    /\ \E i, j \in DOMAIN toWorker :
          /\ toWorker[i].type = "render"
          /\ toWorker[j].type = "render"
          /\ toWorker[j].requestId = toWorker[i].requestId + 1
          /\ toWorker[j].viewport # toWorker[i].viewport
          /\ WithinOverscan(toWorker[j].viewport, toWorker[i].viewport)
          /\ RenderLogged(toWorker[j].requestId, TRUE)
          /\ toWorker[j].quality = lowQuality

\* the Dyadic b is the Dyadic a plus the fraction q = [num, den]
SamePoint(b, a, q) ==
    LET d == DySub(b, a)
        e == Max(d.exp, 0)
    IN  DyNumAt(d, e) * q.den = q.num * Pow2(e)

\* the step refreshes the visible surface from the overscan buffer: an accepted
\* tile, a pan() that does not re-render, or an updateParams() that recolors
RefreshedFromOverscan ==
    \/ TileArrives /\ Head(toMain).requestId = currentRequestId
    \/ PanStep /\ currentRequestId' = currentRequestId
    \/ params' # params /\ currentRequestId' = currentRequestId

\* C31: whenever the visible surface is refreshed from the overscan buffer
\* (accepted tile, cheap-path pan, recolor), the crop shown is centred on the
\* current viewport: the plane point displayed at the centre of the visible
\* surface equals (viewport.centerX, viewport.centerY) at that moment.
C31_CropCentredOnViewport ==
    [][ RefreshedFromOverscan =>
          /\ canvas'.image.kind = "crop"
          /\ LET q == DisplayedOffset(canvas', canvas'.width, canvas'.height)
             IN  /\ SamePoint(viewport'.centerX, canvas'.image.viewport.centerX, q.x)
                 /\ SamePoint(viewport'.centerY, canvas'.image.viewport.centerY, q.y) ]_vars

\* the difference q1 - q2 of two fractions [num, den]
FracSub(q1, q2) ==
    [ num |-> q1.num * q2.den - q2.num * q1.den, den |-> q1.den * q2.den ]

\* the plane distance, per axis, that the visible canvas cv shows between its
\* pixel (0, 0) and its pixel (dx, dy)
DisplayedSpan(cv, dx, dy) ==
    LET o == DisplayedOffset(cv, 0, 0)
        p == DisplayedOffset(cv, 2 * dx, 2 * dy)
    IN  [ x |-> FracSub(p.x, o.x), y |-> FracSub(p.y, o.y) ]

\* the plane point that a completed render for the viewport vp shows at the
\* pixel (px, py) of the visible canvas cv, as an offset from vp's centre: the
\* request's canvas is the overscan buffer (renderer.ts 373-374, 459-460)
RenderedOffset(cv, vp, px, py) ==
    LET w == OverscanSize(cv.width)
        h == OverscanSize(cv.height)
        s == SourcePixel2(cv, w, h, 2 * px, 2 * py)
    IN  PlaneOffset(s.x, s.y, w, h, vp.zoom)

\* the visible surface shows a buffer rendered at the viewport's present zoom
ShowsPresentZoom ==
    /\ canvas.image.kind = "crop"
    /\ canvas.image.viewport.zoom = viewport.zoom

\* C32: the pixel-to-plane scale that pan() and zoom() apply to visible-canvas
\* pixels equals the scale under which the displayed pixels were computed:
\* panning by dx visible pixels moves the viewport centre by exactly the plane
\* distance that dx displayed pixels span, and zoom about (mouseX, mouseY) keeps
\* fixed the plane point displayed at that pixel.
C32_PanAndZoomUseDisplayedScale ==
    [][ /\ \A d \in PanDeltas :
             (ShowsPresentZoom /\ viewport' = Panned(viewport, canvas, d.dx, d.dy)) =>
               LET span == DisplayedSpan(canvas, d.dx, d.dy)
               IN  /\ SamePoint(viewport.centerX, viewport'.centerX, span.x)
                   /\ SamePoint(viewport.centerY, viewport'.centerY, span.y)
        /\ \A z \in ZoomCalls :
             ( /\ z.mouse # NoMouse
               /\ viewport' # viewport
               /\ viewport' = Zoomed(viewport, canvas, z.k, z.mouse) ) =>
               LET before == RenderedOffset(canvas, viewport, z.mouse.x, z.mouse.y)
                   after == RenderedOffset(canvas, viewport', z.mouse.x, z.mouse.y)
               IN  /\ SamePoint(viewport'.centerX, viewport.centerX,
                                FracSub(before.x, after.x))
                   /\ SamePoint(viewport'.centerY, viewport.centerY,
                                FracSub(before.y, after.y)) ]_vars

\* zoom * factor lies below minZoom = 2^-1 or above maxZoom (2^39 <= 1e12 < 2^40)
\* for the factor 2^k
BeyondLimits(k) == viewport.zoom + k < -1 \/ viewport.zoom + k > 39

\* what C33 names: the viewport, the request counter, the three buffers with
\* their viewport tags, and the channel to the worker
ZoomObservables ==
    << viewport, currentRequestId, canvas, overscanCanvas, overscanViewport,
       backgroundCanvas, backgroundViewport, toWorker, sentLog >>

\* C33: a zoom(factor) call for which zoom * factor is below 0.5 or above 1e12
\* leaves the viewport (zoom and centre), currentRequestId and all buffers
\* unchanged and sends no message to the worker.
C33_RefusedZoomChangesNothing ==
    \A z \in ZoomCalls :
        BeyondLimits(z.k) =>
            ~ENABLED (Zoom(z.k, z.mouse) /\ ZoomObservables' # ZoomObservables)

\* zoom(0.5) has brought the zoom to minZoom and its tiles are on the visible
\* surface; zoom(0.5) and zoom(2^41) can both be called again and are refused
C33_Witness ==
    /\ viewport.zoom = -1
    /\ canvas.image # Black
    /\ canvas.image.viewport.zoom = -1
    /\ BeyondLimits(-1)
    /\ BeyondLimits(41)
    /\ ENABLED Zoom(-1, NoMouse)
    /\ ENABLED Zoom(41, NoMouse)

\* a step of startInteraction() that switches interaction mode on
InteractionStarts == ~isInteracting /\ isInteracting'

\* a step of setResolution() in interaction mode: the multiplier or a quality
\* profile changes and interaction mode stays on (endInteraction() adapts the
\* final profile too, and switches the mode off)
ResolutionSetWhileInteracting ==
    /\ isInteracting
    /\ isInteracting'
    /\ << resolutionMultiplier, lowQuality, highQuality >>' #
          << resolutionMultiplier, lowQuality, highQuality >>

\* C34: startInteraction() sends no message to the worker and changes neither
\* currentRequestId nor any buffer or viewport; setResolution() called while
\* isInteracting is true updates the quality profiles but issues no render
\* request.
C34_NoRenderFromStartOrInteractiveResolution ==
    [][ /\ InteractionStarts =>
              UNCHANGED << toWorker, sentLog, currentRequestId, canvas, overscanCanvas,
                           backgroundCanvas, viewport, overscanViewport,
                           backgroundViewport >>
        /\ ResolutionSetWhileInteracting =>
              LET m == resolutionMultiplier'
              IN  /\ lowQuality'.maxIterations = (64 * m.num) \div m.den
                  /\ highQuality'.maxIterations = (256 * m.num) \div m.den
                  /\ lowQuality'.tileSize = Max(32, (64 * m.den) \div m.num)
                  /\ highQuality'.tileSize = Max(16, (32 * m.den) \div m.num)
                  /\ UNCHANGED << toWorker, sentLog, currentRequestId, overscanCanvas,
                                  overscanViewport >> ]_vars

\* after a first render, startInteraction() and then setResolution(0.5) were
\* called and the request counter still has the value that render left
C34_Witness ==
    /\ isInteracting
    /\ resolutionMultiplier = [num |-> 1, den |-> 2]
    /\ lowQuality.maxIterations = 32
    /\ highQuality.maxIterations = 128
    /\ highQuality.tileSize = 64
    /\ currentRequestId = 1
    /\ Len(sentLog) = 2
    /\ RenderLogged(1, FALSE)

\* C35: every final-profile render request carries maxIterations =
\* min(512, floor(128 + 32 * log2(zoom))), hence never above 512 and, for zoom
\* in [0.5, 1e12], never below 96, whatever setResolution() set before; every
\* interactive-profile request carries floor(64 * multiplier) of the last
\* setResolution (64 initially).
C35_RequestMaxIterations ==
    [][ sentLog' # sentLog =>
          LET sent == LastPosted.quality.maxIterations
              m == resolutionMultiplier'
          IN  IF isInteracting'
              THEN /\ sent = (64 * m.num) \div m.den
                   /\ LastPosted.quality.tilesPerFrame = 8
              ELSE /\ sent = Min(512, 128 + 32 * LastPosted.viewport.zoom)
                   /\ sent <= 512
                   /\ sent >= 96
                   /\ LastPosted.quality.tilesPerFrame = 4 ]_vars

\* setResolution(0.5) at zoom 2^39 posted a final request capped at 512
\* iterations, and a render in interaction mode then posted a request with 32
C35_Witness ==
    /\ resolutionMultiplier = [num |-> 1, den |-> 2]
    /\ Len(toWorker) = 4
    /\ toWorker[2].type = "render"
    /\ toWorker[2].viewport.zoom = 39
    /\ toWorker[2].quality.maxIterations = 512
    /\ toWorker[2].quality.tileSize = 64
    /\ RenderLogged(1, FALSE)
    /\ toWorker[4].type = "render"
    /\ toWorker[4].quality.maxIterations = 32
    /\ RenderLogged(2, TRUE)

\* a computePixel call with a complex exponent has returned
ComplexComputed == harness.kind = "complex" /\ harness.result # NoResult

\* the class of zrSq + ziSq when the loop tests it with iteration = i
ClassAt(i) == IF i = 0 THEN harness.m2 ELSE harness.oracle[i].m2

\* with iteration = i, the magnitude, the angle or a new coordinate is not finite
NonFiniteAt(i) ==
    \/ ClassAt(i) = "nan"
    \/ /\ ClassAt(i) = "mid"
       /\ LET o == harness.oracle[i + 1]
          IN  ~o.magnitude \/ ~o.angle \/ ~o.coordinate

\* the loop body is evaluated with iteration = i: no earlier pass has returned
PassReached(i) ==
    /\ ~harness.shortcut
    /\ i < harness.maxIterations
    /\ \A j \in 0..(i - 1) : ClassAt(j) = "mid" /\ ~NonFiniteAt(j)

\* C36: in the complex-exponent path computePixel returns -1 when r < 1e-10 and
\* returns the current integer iteration count (in [0, maxIterations-1]) when
\* the magnitude, the angle or a resulting coordinate is non-finite; for no
\* input does computePixel raise a fault or run more than maxIterations loop
\* iterations.
C36_ComplexPathGuards ==
    ComplexComputed =>
        /\ harness.result.kind \in { "inside", "escaped", "count" }
        /\ harness.result.passes <= harness.maxIterations
        /\ \A i \in 0..(MaxEngineIterations - 1) :
              /\ (PassReached(i) /\ ClassAt(i) = "tiny") =>
                    /\ harness.result.kind = "inside"
                    /\ harness.result.value = -1
              /\ (PassReached(i) /\ NonFiniteAt(i)) =>
                    /\ harness.result.kind = "count"
                    /\ harness.result.value = i
                    /\ harness.result.value \in 0..(harness.maxIterations - 1)

\* two passes were finite and the third, the last that maxIterations = 3 allows,
\* produced a coordinate that is not finite: the call returned 2
C36_Witness ==
    /\ ComplexComputed
    /\ harness.maxIterations = 3
    /\ PassReached(2)
    /\ harness.oracle[3].magnitude
    /\ harness.oracle[3].angle
    /\ ~harness.oracle[3].coordinate
    /\ harness.result.kind = "count"
    /\ harness.result.value = 2
    /\ harness.result.passes = 3

\* the rectangle b lies entirely inside the buffer
InsideBuffer(b, buffer) ==
    /\ 0 <= b.x
    /\ 0 <= b.y
    /\ b.width >= 1
    /\ b.height >= 1
    /\ b.x + b.width <= buffer.width
    /\ b.y + b.height <= buffer.height

\* C37: every tile the compositor blits lies entirely inside the current
\* overscan buffer (0 <= x, 0 <= y, x + width <= overscan width, y + height <=
\* overscan height), in any interleaving of resize()/render() calls and tile
\* deliveries.
C37_BlitsInsideOverscan ==
    [][ /\ (TileArrives /\ BlitOf(Head(toMain)) \in overscanCanvas'.blits) =>
              /\ InsideBuffer(Head(toMain).tile, overscanCanvas)
              /\ InsideBuffer(Head(toMain).tile, overscanCanvas')
        /\ \A b \in overscanCanvas'.blits : InsideBuffer(b, overscanCanvas') ]_vars

\* the request for the 96 x 48 buffer of a 64 x 32 canvas completed with tiles
\* beyond column 48; after resize(32, 32) the 48 x 48 buffer holds a tile of the
\* new request clipped at its right edge
C37_Witness ==
    /\ backgroundCanvas.width = 96
    /\ \E b \in backgroundCanvas.blits : b.x + b.width > 48
    /\ overscanCanvas.width = 48
    /\ currentRequestId = 2
    /\ \E b \in overscanCanvas.blits :
          /\ b.requestId = 2
          /\ b.x + b.width = 48
          /\ b.width < highQuality.tileSize

====
